---- MODULE Spec2Model ----
(***************************************************************************)
(* A model of collections.deque as implemented by PyDeque in               *)
(* vm/src/stdlib/collections.rs: the storage (a VecDeque behind one        *)
(* reader/writer lock), the optional bound `maxlen`, the generation        *)
(* counter `state`, the mutating and reading methods, and the two cursors. *)
(*                                                                         *)
(* Spec      one caller: every method is one action (the whole handler).   *)
(* The concurrent specifications further down split a method at the points *)
(* where another thread can run: each atomic operation on `state` and each *)
(* critical section of the lock is one step.                               *)
(***************************************************************************)
EXTENDS Integers, Sequences, FiniteSets

\* ------------------------------------------------------------------ bounds
MaxLen == 3   \* longest contents explored
MaxGen == 4   \* largest generation explored (state is a usize in the code)
MaxCap == 3   \* largest maxlen explored
MaxIn  == 2   \* longest input of extend / extendleft / the constructor
MaxIdx == 4   \* largest magnitude of an index or rotation argument
MaxRep == 2   \* largest repetition count
MAXSIZE == 5  \* isize::MAX, scaled down so that len * n can exceed it

Vals == {1, 2}

VARIABLES
    deque,    \* PyDeque.deque: the elements, front first
    maxlen,   \* PyDeque.maxlen: None or Some(n)
    state,    \* PyDeque.state: the generation counter
    ret,      \* what the last call returned: [op, arg, kind, err, val]
    pmode,    \* history: which pushes made the contents ("none" after construction)
    pushed,   \* history: the values pushed so far while pmode is "back" or "front"
    pc,       \* per thread: the step its call is at ("idle" between calls)
    loc,      \* per thread: the arguments and local variables of its call
    wlock,    \* the thread holding the write lock across two steps, or 0
    rlock,    \* per thread: the read guards it holds across steps
    it,       \* the cursor: [kind, status, position, state, res]
    obs       \* history: what the claims about interleavings need to know

svars == <<ret, pmode, pushed>>
cvars == <<pc, loc, wlock, rlock, it, obs>>
vars == <<deque, maxlen, state, ret, pmode, pushed, pc, loc, wlock, rlock, it,
          obs>>

\* ------------------------------------------------------- Option<usize>
None == <<>>
Some(n) == <<n>>

\* ------------------------------------------------------ VecDeque helpers
Min(a, b) == IF a < b THEN a ELSE b
Max(a, b) == IF a > b THEN a ELSE b
SatSub(a, b) == IF a > b THEN a - b ELSE 0          \* usize::saturating_sub
FirstN(s, n) == SubSeq(s, 1, n)
LastN(s, n) == SubSeq(s, Len(s) - n + 1, Len(s))
DropN(s, n) == SubSeq(s, n + 1, Len(s))             \* drain(..n)
Reverse(s) == [i \in 1..Len(s) |-> s[Len(s) + 1 - i]]
pop_front(s) == IF s = <<>> THEN s ELSE Tail(s)
pop_back(s) == IF s = <<>> THEN s ELSE FirstN(s, Len(s) - 1)
RemoveAt_and_after(s, i) == FirstN(s, i)            \* drops position i and the rest
RemoveAt(s, i) == FirstN(s, i) \o DropN(s, i + 1)   \* VecDeque::remove, i from 0
InsertAt(s, i, x) == FirstN(s, i) \o <<x>> \o DropN(s, i) \* VecDeque::insert
SetAt(s, i, x) == [s EXCEPT ![i + 1] = x]
rotate_left(s, k) == DropN(s, k) \o FirstN(s, k)
rotate_right(s, k) == LastN(s, k) \o FirstN(s, Len(s) - k)
RustRem(a, b) == IF a >= 0 THEN a % b ELSE -((-a) % b)  \* isize %, truncating
RECURSIVE Cycle(_, _)
Cycle(s, n) == IF n <= 0 THEN <<>> ELSE s \o Cycle(s, n - 1)

\* Inputs of the bulk operations: a materialised sequence, or an object
\* that is not iterable (try_to_value fails).
Seqs(n) == UNION {[1..k -> Vals] : k \in 0..n}
Inputs == {[valid |-> TRUE, elems |-> s] : s \in Seqs(MaxIn)}
              \cup {[valid |-> FALSE, elems |-> <<>>]}

Ok(op, arg, val) == [op |-> op, arg |-> arg, kind |-> "Ok", err |-> "", val |-> val]
Err(op, arg, e) == [op |-> op, arg |-> arg, kind |-> "Err", err |-> e, val |-> <<>>]

\* ------------------------------------------------- the locked parts
\* append: evict from the front when the length equals maxlen, then push
append_locked(dq, ml, obj) ==
    LET d1 == IF ml = Some(Len(dq)) THEN pop_front(dq) ELSE dq
    IN  Append(d1, obj)

appendleft_locked(dq, ml, obj) ==
    LET d1 == IF ml = Some(Len(dq)) THEN pop_back(dq) ELSE dq
    IN  <<obj>> \o d1

\* _extend, first critical section: trim the contents (or clear them)
extend_trim(dq, ml, elements) ==
    IF ml = None THEN dq
    ELSE IF ml[1] > Len(elements)
         THEN DropN(dq, SatSub(Len(dq), ml[1] - Len(elements)))
         ELSE <<>>

\* an _extend that keeps every incoming element
extend_elements_all(ml, elements) == elements

\* _extend: the incoming elements that are kept
extend_elements(ml, elements) ==
    IF ml # None /\ ~(ml[1] > Len(elements))
    THEN DropN(elements, Len(elements) - ml[1])
    ELSE elements

\* an extendleft that makes room at the front instead of the tail
extendleft_trim_front(dq, ml, elements) ==
    IF ml = None THEN dq
    ELSE IF ml[1] > Len(elements)
         THEN DropN(dq, SatSub(Len(dq), ml[1] - Len(elements)))
         ELSE <<>>

\* extendleft, first critical section
extendleft_trim(dq, ml, elements) ==
    IF ml = None THEN dq
    ELSE IF ml[1] > Len(elements)
         THEN FirstN(dq, Min(Len(dq), ml[1] - Len(elements)))  \* truncate
         ELSE <<>>

\* extendleft: the incoming elements (already reversed) that are kept
extendleft_elements(ml, elements) ==
    IF ml # None /\ ~(ml[1] > Len(elements))
    THEN FirstN(elements, ml[1])
    ELSE elements

\* idx is an i32: I32_MIN stands for i32::MIN, the one value whose negation
\* does not fit; USIZE_MOD stands for 2^64, beyond every length and index
I32_MIN == -(MaxIdx + 1)
USIZE_MOD == 4 * (MaxIdx + 1)

\* -idx as usize where the negation wraps (a build without overflow
\* checks): i32::MIN stays i32::MIN and is sign-extended
neg_as_usize(idx) ==
    IF idx = I32_MIN THEN USIZE_MOD + I32_MIN ELSE -idx

\* insert: the clamped position
insert_index(idx, len) ==
    IF idx < 0
    THEN IF neg_as_usize(idx) > len THEN 0 ELSE len - neg_as_usize(idx)
    ELSE IF idx > len THEN len ELSE idx

\* an insert that never finds the container full
insert_full_never(dq, ml) == FALSE

\* insert: self.maxlen == Some(deque.len())
insert_full(dq, ml) == ml = Some(Len(dq))

\* a rotation with the two directions exchanged
rotate_locked_swapped(dq, mid) ==
    IF dq # <<>>
    THEN LET m == RustRem(mid, Len(dq))
         IN  IF m < 0 THEN rotate_right(dq, -m) ELSE rotate_left(dq, m)
    ELSE dq

\* rotate, under the lock
rotate_locked(dq, mid) ==
    IF dq # <<>>
    THEN LET m == RustRem(mid, Len(dq))
         IN  IF m < 0 THEN rotate_left(dq, -m) ELSE rotate_right(dq, m)
    ELSE dq

\* isize::wrapped_at (sliceable.rs): None, or Some(position)
wrapped_at(idx, len) ==
    LET p == IF idx < 0 THEN idx + len ELSE idx
    IN  IF p < 0 \/ p >= len THEN None ELSE Some(p)

\* vm.check_repeat_or_overflow_error: None on overflow, else Some(n)
check_repeat_or_overflow_error(len, n) ==
    IF n <= 0 THEN Some(0)
    ELSE IF len > MAXSIZE \div n THEN None ELSE Some(n)

\* a repetition that keeps the leading elements when it has to drop some
mul_deque_head(dq, ml, n) ==
    LET rep == Cycle(dq, n)
    IN  IF ml # None THEN FirstN(rep, Min(Len(rep), ml[1])) ELSE rep

\* _mul: the repeated contents, the leading elements beyond maxlen skipped
mul_deque(dq, ml, n) ==
    LET mul_len == n * Len(dq)
        rep == Cycle(dq, n)
        skipped == IF ml # None /\ mul_len >= ml[1] THEN mul_len - ml[1] ELSE 0
    IN  DropN(rep, skipped)

\* a concatenation that keeps the leading elements when it has to drop some
concat_deque_head(dq, ml, other) ==
    LET all == dq \o other
    IN  IF ml # None THEN FirstN(all, Min(Len(all), ml[1])) ELSE all

\* concat: the new container's elements
concat_deque(dq, ml, other) ==
    LET all == dq \o other
        skipped == IF ml # None /\ Len(all) >= ml[1] THEN Len(all) - ml[1] ELSE 0
    IN  DropN(all, skipped)

\* MutObjectSequenceOp::mut_index: the lowest index (from 0) whose element
\* is the needle or equals it; None when there is none
mut_index(dq, needle) ==
    IF \E i \in 1..Len(dq) : dq[i] = needle
    THEN Some(CHOOSE i \in 0..(Len(dq) - 1) :
                 /\ dq[i + 1] = needle
                 /\ \A j \in 0..(i - 1) : dq[j + 1] # needle)
    ELSE None

\* ------------------------------------------------------------- history
Hist(mode) ==
    /\ pmode' = mode
    /\ pushed' = <<>>

HistPush(mode, obj) ==
    IF pmode \in {"none", mode}
    THEN pmode' = mode /\ pushed' = Append(pushed, obj)
    ELSE Hist("mixed")

\* --------------------------------------------------- construction (init)
\* a construction that keeps the leading elements of the input
init_elements_head(elements, ml) ==
    IF ml = None THEN elements
    ELSE FirstN(elements, Min(Len(elements), ml[1]))

init_elements(elements, ml) ==
    IF ml = None THEN elements
    ELSE DropN(elements, SatSub(Len(elements), ml[1]))

Caps == {None} \cup {Some(c) : c \in 0..MaxCap}

Threads == {1, 2}

NoRes == [kind |-> "None", err |-> "", val |-> <<>>]

\* a thread's locals before its first call
IdleLoc ==
    [op |-> "none", obj |-> 0, idx |-> 0, valid |-> TRUE, elements |-> <<>>,
     tmp |-> <<>>, start_state |-> 0, end_state |-> None, i |-> 0, stop |-> 0,
     count |-> 0, index |-> None, calls |-> 0, res |-> NoRes,
     max_len |-> None]

\* no cursor yet.  A cursor's `obj` is the reference IterStatus::Active
\* carries: Some("deque") while it is held, None once it is dropped
NoIter == [kind |-> "none", status |-> "None", obj |-> None, position |-> 0,
           state |-> 0, res |-> NoRes]

\* the container after construction with capacity in `caps`, and threads
\* that may make budget[t] calls each; `keep` records the first contents
InitWith(caps, budget, keep) ==
    /\ maxlen \in caps
    /\ \E s \in Seqs(MaxIn) : deque = init_elements(s, maxlen)
    /\ state = 0
    /\ ret = Ok("new", 0, <<>>)
    /\ pmode = IF deque = <<>> THEN "none" ELSE "mixed"
    /\ pushed = <<>>
    /\ pc = [t \in Threads |-> "idle"]
    /\ loc = [t \in Threads |-> IdleLoc]
    /\ wlock = 0
    /\ rlock = [t \in Threads |-> 0]
    /\ it = NoIter
    /\ obs = [budget |-> budget,
              keep |-> keep,
              d0 |-> IF keep THEN deque ELSE <<>>,
              dirty |-> [t \in Threads |-> FALSE],
              completed |-> FALSE,
              at_begin |-> FALSE,
              born_clean |-> FALSE,
              late |-> FALSE,
              orig |-> <<>>,
              seed |-> None,
              copy |-> None,
              cit |-> NoIter]

Init == InitWith(Caps, [t \in Threads |-> 0], FALSE)

\* the maxlen argument of the constructor: left out, None, an integer, or
\* an object that is not an integer
MaxlenArgs ==
    {[kind |-> k, v |-> 0] : k \in {"absent", "none", "other"}}
        \cup {[kind |-> "int", v |-> n] : n \in -1..MaxCap}

\* the parsing of the maxlen argument at the head of Initializer::init
init_maxlen(arg) ==
    CASE arg.kind \in {"absent", "none"} -> [err |-> "", maxlen |-> None]
      [] arg.kind = "other" -> [err |-> "TypeMismatch", maxlen |-> None]
      [] arg.kind = "int" ->
            IF arg.v < 0 THEN [err |-> "ValueError", maxlen |-> None]
            ELSE [err |-> "", maxlen |-> Some(arg.v)]

\* Initializer::init on an existing object (__init__); an iterable that is
\* left out stores what an empty one stores
init(iterable, arg) ==
    LET m == init_maxlen(arg)
        a == [iterable |-> iterable, maxlen |-> arg]
    IN  /\ IF m.err # ""
           THEN /\ ret' = Err("init", a, m.err)
                /\ UNCHANGED <<deque, maxlen>>
           ELSE IF ~iterable.valid
           THEN /\ ret' = Err("init", a, "TypeMismatch")
                /\ UNCHANGED <<deque, maxlen>>
           ELSE /\ deque' = init_elements(iterable.elems, m.maxlen)
                /\ maxlen' = m.maxlen
                /\ ret' = Ok("init", a, <<>>)
        /\ pmode' = IF deque' = <<>> THEN "none" ELSE "mixed"
        /\ pushed' = <<>>
        /\ UNCHANGED cvars
        /\ UNCHANGED state

\* ------------------------------------- the methods, one caller at a time
append(obj) ==
    /\ state < MaxGen
    /\ state' = state + 1
    /\ deque' = append_locked(deque, maxlen, obj)
    /\ Len(deque') <= MaxLen
    /\ ret' = Ok("append", obj, <<>>)
    /\ HistPush("back", obj)
    /\ UNCHANGED cvars
    /\ UNCHANGED maxlen

appendleft(obj) ==
    /\ state < MaxGen
    /\ state' = state + 1
    /\ deque' = appendleft_locked(deque, maxlen, obj)
    /\ Len(deque') <= MaxLen
    /\ ret' = Ok("appendleft", obj, <<>>)
    /\ HistPush("front", obj)
    /\ UNCHANGED cvars
    /\ UNCHANGED maxlen

clear ==
    /\ state < MaxGen
    /\ state' = state + 1
    /\ deque' = <<>>
    /\ ret' = Ok("clear", 0, <<>>)
    /\ Hist("mixed")
    /\ UNCHANGED cvars
    /\ UNCHANGED maxlen

extend(iter) ==
    /\ state < MaxGen
    /\ state' = state + 1
    /\ IF ~iter.valid
       THEN /\ ret' = Err("extend", 0, "TypeMismatch")
            /\ UNCHANGED deque
       ELSE /\ deque' = extend_trim(deque, maxlen, iter.elems)
                            \o extend_elements(maxlen, iter.elems)
            /\ Len(deque') <= MaxLen
            /\ ret' = Ok("extend", iter.elems, <<>>)
    /\ Hist("mixed")
    /\ UNCHANGED cvars
    /\ UNCHANGED maxlen

extendleft(iter) ==
    /\ IF ~iter.valid
       THEN /\ ret' = Err("extendleft", 0, "TypeMismatch")
            /\ UNCHANGED deque
       ELSE /\ deque' = extendleft_elements(maxlen, Reverse(iter.elems))
                            \o extendleft_trim(deque, maxlen, Reverse(iter.elems))
            /\ Len(deque') <= MaxLen
            /\ ret' = Ok("extendleft", iter.elems, <<>>)
    /\ Hist("mixed")
    /\ UNCHANGED cvars
    /\ UNCHANGED <<maxlen, state>>

\* the negation -idx of idx = i32::MIN overflows: a build with overflow
\* checks panics there (the write guard is released by the unwinding), a
\* build without them wraps
insert(idx, obj) ==
    /\ state < MaxGen
    /\ state' = state + 1
    /\ IF insert_full(deque, maxlen)
       THEN /\ ret' = Err("insert", <<idx, obj>>, "Full")
            /\ UNCHANGED deque
       ELSE \/ /\ idx = I32_MIN
               /\ ret' = Err("insert", <<idx, obj>>, "Panic")
               /\ UNCHANGED deque
            \/ /\ deque' = InsertAt(deque, insert_index(idx, Len(deque)), obj)
               /\ Len(deque') <= MaxLen
               /\ ret' = Ok("insert", <<idx, obj>>, <<>>)
    /\ Hist("mixed")
    /\ UNCHANGED cvars
    /\ UNCHANGED maxlen

pop ==
    /\ state < MaxGen
    /\ state' = state + 1
    /\ IF deque = <<>>
       THEN /\ ret' = Err("pop", 0, "EmptyContainer")
            /\ UNCHANGED deque
       ELSE /\ deque' = pop_back(deque)
            /\ ret' = Ok("pop", 0, <<deque[Len(deque)]>>)
    /\ Hist("mixed")
    /\ UNCHANGED cvars
    /\ UNCHANGED maxlen

popleft ==
    /\ state < MaxGen
    /\ state' = state + 1
    /\ IF deque = <<>>
       THEN /\ ret' = Err("popleft", 0, "EmptyContainer")
            /\ UNCHANGED deque
       ELSE /\ deque' = pop_front(deque)
            /\ ret' = Ok("popleft", 0, <<deque[1]>>)
    /\ Hist("mixed")
    /\ UNCHANGED cvars
    /\ UNCHANGED maxlen

\* remove that takes out the last match instead of the first
remove_last_match(obj) ==
    LET hits == {i \in 0..(Len(deque) - 1) : deque[i + 1] = obj}
        index == IF hits = {} THEN None
                 ELSE Some(CHOOSE i \in hits : \A j \in hits : j <= i)
    IN  /\ IF index # None
           THEN /\ state < MaxGen
                /\ state' = state + 1
                /\ deque' = RemoveAt(deque, index[1])
                /\ ret' = Ok("remove", obj, <<deque[index[1] + 1]>>)
           ELSE /\ ret' = Err("remove", obj, "NotFound")
                /\ UNCHANGED <<deque, state>>
        /\ Hist("mixed")
        /\ UNCHANGED cvars
        /\ UNCHANGED maxlen

\* remove with nothing interleaved: the two loads of state agree
remove(obj) ==
    LET index == mut_index(deque, obj)
    IN  /\ IF index # None
           THEN /\ state < MaxGen
                /\ state' = state + 1
                /\ deque' = RemoveAt(deque, index[1])
                /\ ret' = Ok("remove", obj, <<deque[index[1] + 1]>>)
           ELSE /\ ret' = Err("remove", obj, "NotFound")
                /\ UNCHANGED <<deque, state>>
        /\ Hist("mixed")
        /\ UNCHANGED cvars
        /\ UNCHANGED maxlen

\* reverse that adds to state, as the methods that move the indices do
reverse_bumps ==
    /\ state < MaxGen
    /\ state' = state + 1
    /\ deque' = Reverse(deque)
    /\ ret' = Ok("reverse", 0, <<>>)
    /\ Hist("mixed")
    /\ UNCHANGED cvars
    /\ UNCHANGED maxlen

reverse ==
    /\ deque' = Reverse(deque)
    /\ ret' = Ok("reverse", 0, <<>>)
    /\ Hist("mixed")
    /\ UNCHANGED cvars
    /\ UNCHANGED <<maxlen, state>>

\* rotate that adds to state only when there is something to rotate
rotate_bumps_if_moved(mid) ==
    /\ state < MaxGen
    /\ state' = IF deque # <<>> THEN state + 1 ELSE state
    /\ deque' = rotate_locked(deque, mid)
    /\ ret' = Ok("rotate", mid, <<>>)
    /\ Hist("mixed")
    /\ UNCHANGED cvars
    /\ UNCHANGED maxlen

rotate(mid) ==
    /\ state < MaxGen
    /\ state' = state + 1
    /\ deque' = rotate_locked(deque, mid)
    /\ ret' = Ok("rotate", mid, <<>>)
    /\ Hist("mixed")
    /\ UNCHANGED cvars
    /\ UNCHANGED maxlen

\* an indexed read that counts a negative index from the end without
\* the offset of 1: -1 reads the element before the last
getitem_value_shifted(dq, idx) ==
    LET i == wrapped_at(IF idx < 0 THEN idx - 1 ELSE idx, Len(dq))
    IN  IF i = None THEN None ELSE Some(dq[i[1] + 1])

\* __getitem__: idx.wrapped_at(len).and_then(|i| deque.get(i).cloned())
getitem_value(dq, idx) ==
    LET i == wrapped_at(idx, Len(dq))
    IN  IF i = None THEN None ELSE Some(dq[i[1] + 1])

getitem(idx) ==
    LET v == getitem_value(deque, idx)
    IN  /\ ret' = IF v = None THEN Err("getitem", idx, "OutOfRange")
                  ELSE Ok("getitem", idx, v)
        /\ Hist("mixed")
        /\ UNCHANGED cvars
        /\ UNCHANGED <<deque, maxlen, state>>

setitem(idx, value) ==
    LET i == wrapped_at(idx, Len(deque))
    IN  /\ IF i = None
           THEN /\ ret' = Err("setitem", <<idx, value>>, "OutOfRange")
                /\ UNCHANGED deque
           ELSE /\ deque' = SetAt(deque, i[1], value)
                /\ ret' = Ok("setitem", <<idx, value>>, <<>>)
        /\ Hist("mixed")
        /\ UNCHANGED cvars
        /\ UNCHANGED <<maxlen, state>>

delitem(idx) ==
    LET i == wrapped_at(idx, Len(deque))
    IN  /\ IF i = None
           THEN /\ ret' = Err("delitem", idx, "OutOfRange")
                /\ UNCHANGED deque
           ELSE /\ deque' = RemoveAt(deque, i[1])
                /\ ret' = Ok("delitem", idx, <<>>)
        /\ Hist("mixed")
        /\ UNCHANGED cvars
        /\ UNCHANGED <<maxlen, state>>

imul(n) ==
    LET r == check_repeat_or_overflow_error(Len(deque), n)
    IN  /\ IF r = None
           THEN /\ ret' = Err("imul", n, "SizeOverflow")
                /\ UNCHANGED deque
           ELSE /\ deque' = mul_deque(deque, maxlen, r[1])
                /\ Len(deque') <= MaxLen
                /\ ret' = Ok("imul", n, <<>>)
        /\ Hist("mixed")
        /\ UNCHANGED cvars
        /\ UNCHANGED <<maxlen, state>>

\* the container __mul__ and concat return: Self { deque, maxlen:
\* self.maxlen, state: AtomicCell::new(0) }
new_deque(elems, ml) == [deque |-> elems, maxlen |-> ml, state |-> 0]

\* __mul__ / __rmul__
mul(n) ==
    LET r == check_repeat_or_overflow_error(Len(deque), n)
    IN  /\ ret' = IF r = None THEN Err("mul", n, "SizeOverflow")
                  ELSE Ok("mul", n, new_deque(mul_deque(deque, maxlen, r[1]), maxlen))
        /\ Hist("mixed")
        /\ UNCHANGED cvars
        /\ UNCHANGED <<deque, maxlen, state>>

\* concat: `other` is a deque with the given elements, or no deque at all
concat(other) ==
    /\ ret' = IF ~other.valid THEN Err("concat", other, "TypeMismatch")
              ELSE Ok("concat", other,
                      new_deque(concat_deque(deque, maxlen, other.elems), maxlen))
    /\ Hist("mixed")
    /\ UNCHANGED cvars
    /\ UNCHANGED <<deque, maxlen, state>>

\* the element a forward cursor at pos reads: deque.get(pos)
iter_get(dq, pos) ==
    IF pos < Len(dq) THEN Some(dq[pos + 1]) ELSE None

\* a reconstruction description that leaves the capacity out
reduce_value_unbounded(ml) == <<>>

\* __reduce__: the constructor arguments, () or ((), maxlen)
reduce_value(ml) ==
    IF ml = None THEN <<>> ELSE <<<<>>, ml[1]>>

\* __reduce__: (cls, value, None, PyDequeIterator::new(zelf)); the cursor is
\* a forward cursor at position 0 holding the current state
reduce ==
    /\ ret' = Ok("reduce", 0,
                 <<reduce_value(maxlen),
                   [kind |-> "fwd", status |-> "Active", position |-> 0,
                    state |-> state]>>)
    /\ Hist("mixed")
    /\ UNCHANGED cvars
    /\ UNCHANGED <<deque, maxlen, state>>

\* the constructor called with the arguments of a description: no argument,
\* or (iterable, maxlen)
deque_new(args) ==
    IF args = <<>>
    THEN [maxlen |-> None, deque |-> <<>>]
    ELSE [maxlen |-> Some(args[2]),
          deque |-> init_elements(args[1], Some(args[2]))]

\* the elements a forward cursor yields from position pos on, contents dq
\* not being changed meanwhile
RECURSIVE Consume(_, _)
Consume(dq, pos) ==
    LET r == iter_get(dq, pos)
    IN  IF r = None THEN <<>> ELSE <<r[1]>> \o Consume(dq, pos + 1)

\* append called with each item in turn
RECURSIVE AppendAll(_, _, _)
AppendAll(dq, ml, items) ==
    IF items = <<>> THEN dq
    ELSE AppendAll(append_locked(dq, ml, Head(items)), ml, Tail(items))

\* appendleft called with each item in turn
RECURSIVE AppendleftAll(_, _, _)
AppendleftAll(dq, ml, items) ==
    IF items = <<>> THEN dq
    ELSE AppendleftAll(appendleft_locked(dq, ml, Head(items)), ml, Tail(items))

\* replaying a description: construct, then push back what the cursor yields
replay(val, dq) ==
    LET made == deque_new(val[1])
    IN  [maxlen |-> made.maxlen,
         deque |-> AppendAll(made.deque, made.maxlen,
                             Consume(dq, val[2].position))]

Next ==
    \/ reduce
    \/ \E obj \in Vals : append(obj)
    \/ \E obj \in Vals : appendleft(obj)
    \/ clear
    \/ \E iter \in Inputs : extend(iter)
    \/ \E iter \in Inputs : extendleft(iter)
    \/ \E idx \in I32_MIN..MaxIdx, obj \in Vals : insert(idx, obj)
    \/ pop
    \/ popleft
    \/ \E obj \in Vals : remove(obj)
    \/ reverse
    \/ \E mid \in -MaxIdx..MaxIdx : rotate(mid)
    \/ \E idx \in -MaxIdx..MaxIdx : getitem(idx)
    \/ \E idx \in -MaxIdx..MaxIdx, value \in Vals : setitem(idx, value)
    \/ \E idx \in -MaxIdx..MaxIdx : delitem(idx)
    \/ \E n \in -1..MaxRep : mul(n)
    \/ \E n \in -1..MaxRep : imul(n)
    \/ \E other \in Inputs : concat(other)

Spec == Init /\ [][Next]_vars

\* ------------------------------------------------------------ comparison
CmpOps == {"Eq", "Ne", "Lt", "Le", "Gt", "Ge"}

\* PyComparisonOp::identical_optimization: the answer when both operands
\* are one object, for == and != only
identical_optimization(op, same) ==
    IF same /\ op = "Eq" THEN Some(TRUE)
    ELSE IF same /\ op = "Ne" THEN Some(FALSE)
    ELSE None

\* vm.bool_seq_lt / bool_seq_gt on two elements: decided, or None when the
\* elements are equal and the walk goes on
bool_seq_lt(x, y) ==
    IF x < y THEN Some(TRUE) ELSE IF x # y THEN Some(FALSE) ELSE None

bool_seq_gt(x, y) ==
    IF x > y THEN Some(TRUE) ELSE IF x # y THEN Some(FALSE) ELSE None

\* PyComparisonOp::eval_ord on the two lengths
eval_ord(op, la, lb) ==
    CASE op = "Lt" -> la < lb
      [] op = "Le" -> la <= lb
      [] op = "Gt" -> la > lb
      [] op = "Ge" -> la >= lb

\* the walks of richcompare over the element pairs from i on; the result
\* and the number of element comparisons made
RECURSIVE eq_walk(_, _, _)
eq_walk(a, b, i) ==
    IF i > Len(a) THEN [res |-> TRUE, compared |-> i - 1]
    ELSE IF a[i] = b[i] THEN eq_walk(a, b, i + 1)
    ELSE [res |-> FALSE, compared |-> i]

RECURSIVE ord_walk(_, _, _, _)
ord_walk(a, b, i, op) ==
    IF i > Min(Len(a), Len(b))
    THEN [res |-> eval_ord(op, Len(a), Len(b)), compared |-> i - 1]
    ELSE LET r == IF op \in {"Lt", "Le"} THEN bool_seq_lt(a[i], b[i])
                  ELSE bool_seq_gt(a[i], b[i])
         IN  IF r # None THEN [res |-> r[1], compared |-> i]
             ELSE ord_walk(a, b, i + 1, op)

\* richcompare of two element iterators
richcompare(lhs, rhs, op) ==
    IF op \in {"Eq", "Ne"}
    THEN LET e == IF Len(lhs) # Len(rhs) THEN [res |-> FALSE, compared |-> 0]
                  ELSE eq_walk(lhs, rhs, 1)
         IN  [res |-> IF op = "Eq" THEN e.res ELSE ~e.res, compared |-> e.compared]
    ELSE ord_walk(lhs, rhs, 1, op)

\* a comparison that walks the elements even when the operands are one
\* object
cmp_value_no_shortcut(same, lhs, rhs, op) == richcompare(lhs, rhs, op)

\* Comparable::cmp for two deques: the identity shortcut, else richcompare
\* of the two contents
cmp_value(same, lhs, rhs, op) ==
    LET res == identical_optimization(op, same)
    IN  IF res # None THEN [res |-> res[1], compared |-> 0]
        ELSE richcompare(lhs, rhs, op)

\* the right operand of a comparison: the container itself, another deque
\* with its own contents, capacity and generation, or no deque
CmpOperands ==
    {[kind |-> k, deque |-> <<>>, maxlen |-> None, state |-> 0] :
        k \in {"self", "other"}}
      \cup {[kind |-> "deque", deque |-> d, maxlen |-> c[1], state |-> c[2]] :
                d \in Seqs(MaxIn), c \in {<<None, 0>>, <<Some(MaxCap), 1>>}}

\* Comparable::cmp, one caller
cmp(other, op) ==
    /\ ret' = IF other.kind = "other" /\ identical_optimization(op, FALSE) = None
              THEN Ok("cmp", <<other, op>>, "NotImplemented")
              ELSE Ok("cmp", <<other, op>>,
                      cmp_value(other.kind = "self", deque,
                                IF other.kind = "self" THEN deque ELSE other.deque,
                                op))
    /\ Hist("mixed")
    /\ UNCHANGED cvars
    /\ UNCHANGED <<deque, maxlen, state>>

\* comparisons of containers of every content, bounded or not, at every
\* generation
InitCmp == InitWith({None, Some(2)}, [t \in Threads |-> 0], FALSE)

NextCmp ==
    \/ \E other \in CmpOperands, op \in CmpOps : cmp(other, op)
    \/ popleft

SpecCmp == InitCmp /\ [][NextCmp]_vars

\* ------------------------------------ construction and re-initialisation
\* __init__ on containers of every content, capacity and generation
NextInit ==
    \/ \E iterable \in Inputs, arg \in MaxlenArgs : init(iterable, arg)
    \/ \E obj \in Vals : append(obj)
    \/ \E obj \in Vals : appendleft(obj)
    \/ pop

SpecInit == Init /\ [][NextInit]_vars

(***************************************************************************)
(* Several threads.  A call of thread t runs as a sequence of steps; a     *)
(* step is one atomic operation on `state` or one critical section of the  *)
(* lock, together with the thread-local code around it.                    *)
(***************************************************************************)
OkRes(val) == [kind |-> "Ok", err |-> "", val |-> val]
ErrRes(e) == [kind |-> "Err", err |-> e, val |-> <<>>]

\* the steps of a scan between its first and its last load of state
ScanPcs == {"index_len", "scan", "scan_end"}

CanCall(t) == pc[t] = "idle" /\ loc[t].calls < obs.budget[t]

NewCall(t, op, obj, idx, valid, elements) ==
    [IdleLoc EXCEPT !.op = op, !.obj = obj, !.idx = idx, !.valid = valid,
                    !.elements = elements, !.calls = loc[t].calls + 1]

\* PyRwLock: write() is granted when no guard is held
WriteFree == wlock = 0 /\ \A u \in Threads : rlock[u] = 0

\* the steps at which a thread has called write() and waits for the lock
WriteWaitPcs ==
    {"append", "appendleft", "clear", "insert", "pop", "popleft", "rotate",
     "extend_trim", "extend_push", "extendleft_trim", "extendleft_push",
     "init_lock", "reverse_write", "imul_write", "remove_lock"}

\* read() of a lock that prefers writers: granted when no writer holds the
\* lock and none waits for it, whatever read guards the caller holds
ReadFree == wlock = 0 /\ \A u \in Threads : pc[u] \notin WriteWaitPcs

\* the methods that start with self.state.fetch_add(1)
BumpingOps == {"append", "appendleft", "clear", "extend", "insert", "pop",
               "popleft", "rotate"}

\* history: thread t, running method op, stores contents nd; `fin` says
\* that this step ends a call that added to the generation
Observe(t, nd, op, fin) ==
    [obs EXCEPT
       !.dirty = [u \in Threads |->
                     IF u # t /\ pc[u] \in ScanPcs /\ op \in BumpingOps
                     THEN obs.dirty[u] \/ nd # deque
                     ELSE obs.dirty[u]],
       !.completed = obs.completed \/ (fin /\ it.status # "None"),
       !.late = obs.late \/ (it.status = "Exhausted" /\ Len(nd) > Len(deque))]

\* one step of thread t: contents nd, then at step p with locals l
Move(t, nd, p, l, fin) ==
    /\ Len(nd) <= MaxLen
    /\ deque' = nd
    /\ pc' = [pc EXCEPT ![t] = p]
    /\ loc' = [loc EXCEPT ![t] = l]
    /\ obs' = Observe(t, nd, l.op, fin)
    /\ UNCHANGED <<maxlen, it, svars>>

\* the locals a finished call leaves behind: its result; its loads of state;
\* what its scan found; its arguments when the scenario keeps them
Returned(t, l, res) ==
    IF obs.keep
    THEN [l EXCEPT !.res = res, !.tmp = <<>>]
    ELSE [IdleLoc EXCEPT !.op = l.op, !.calls = l.calls, !.res = res,
                         !.start_state = l.start_state,
                         !.end_state = l.end_state,
                         !.count = l.count, !.index = l.index]

Returns(t, res) == Returned(t, loc[t], res)

\* a first statement that starts the generation again at 0 in clear
Bump_clear_resets(t, op, obj, idx) ==
    /\ CanCall(t)
    /\ state < MaxGen
    /\ state' = IF op = "clear" THEN 0 ELSE state + 1
    /\ Move(t, deque, op, NewCall(t, op, obj, idx, TRUE, <<>>), FALSE)
    /\ UNCHANGED <<wlock, rlock>>

\* self.state.fetch_add(1), the first statement of the method `op`
Bump(t, op, obj, idx) ==
    /\ CanCall(t)
    /\ state < MaxGen
    /\ state' = state + 1
    /\ Move(t, deque, op, NewCall(t, op, obj, idx, TRUE, <<>>), FALSE)
    /\ UNCHANGED <<wlock, rlock>>

t_append_begin(t, obj) == Bump(t, "append", obj, 0)

t_append_lock(t) ==
    /\ pc[t] = "append"
    /\ WriteFree
    /\ Move(t, append_locked(deque, maxlen, loc[t].obj), "idle",
            Returns(t, OkRes(<<>>)), TRUE)
    /\ UNCHANGED <<state, wlock, rlock>>

t_appendleft_begin(t, obj) == Bump(t, "appendleft", obj, 0)

t_appendleft_lock(t) ==
    /\ pc[t] = "appendleft"
    /\ WriteFree
    /\ Move(t, appendleft_locked(deque, maxlen, loc[t].obj), "idle",
            Returns(t, OkRes(<<>>)), TRUE)
    /\ UNCHANGED <<state, wlock, rlock>>

t_clear_begin(t) == Bump(t, "clear", 0, 0)

t_clear_lock(t) ==
    /\ pc[t] = "clear"
    /\ WriteFree
    /\ Move(t, <<>>, "idle", Returns(t, OkRes(<<>>)), TRUE)
    /\ UNCHANGED <<state, wlock, rlock>>

t_insert_begin(t, idx, obj) == Bump(t, "insert", obj, idx)

t_insert_lock(t) ==
    /\ pc[t] = "insert"
    /\ WriteFree
    /\ IF maxlen = Some(Len(deque))
       THEN Move(t, deque, "idle", Returns(t, ErrRes("Full")), TRUE)
       ELSE Move(t, InsertAt(deque, insert_index(loc[t].idx, Len(deque)),
                             loc[t].obj),
                 "idle", Returns(t, OkRes(<<>>)), TRUE)
    /\ UNCHANGED <<state, wlock, rlock>>

t_pop_begin(t) == Bump(t, "pop", 0, 0)

t_pop_lock(t) ==
    /\ pc[t] = "pop"
    /\ WriteFree
    /\ IF deque = <<>>
       THEN Move(t, deque, "idle", Returns(t, ErrRes("EmptyContainer")), TRUE)
       ELSE Move(t, pop_back(deque), "idle",
                 Returns(t, OkRes(<<deque[Len(deque)]>>)), TRUE)
    /\ UNCHANGED <<state, wlock, rlock>>

t_popleft_begin(t) == Bump(t, "popleft", 0, 0)

t_popleft_lock(t) ==
    /\ pc[t] = "popleft"
    /\ WriteFree
    /\ IF deque = <<>>
       THEN Move(t, deque, "idle", Returns(t, ErrRes("EmptyContainer")), TRUE)
       ELSE Move(t, pop_front(deque), "idle",
                 Returns(t, OkRes(<<deque[1]>>)), TRUE)
    /\ UNCHANGED <<state, wlock, rlock>>

t_rotate_begin(t, mid) == Bump(t, "rotate", 0, mid)

t_rotate_lock(t) ==
    /\ pc[t] = "rotate"
    /\ WriteFree
    /\ Move(t, rotate_locked(deque, loc[t].idx), "idle",
            Returns(t, OkRes(<<>>)), TRUE)
    /\ UNCHANGED <<state, wlock, rlock>>

\* _extend: fetch_add, then the input is materialised (try_to_value)
t_extend_begin(t, iter) ==
    /\ CanCall(t)
    /\ state < MaxGen
    /\ state' = state + 1
    /\ LET l == [NewCall(t, "extend", 0, 0, iter.valid, iter.elems) EXCEPT
                    !.max_len = maxlen]
       IN  IF ~iter.valid
           THEN Move(t, deque, "idle",
                     Returned(t, l, ErrRes("TypeMismatch")), TRUE)
           ELSE Move(t, deque,
                     IF maxlen # None THEN "extend_trim" ELSE "extend_push",
                     l, FALSE)
    /\ UNCHANGED <<wlock, rlock>>

\* _extend: the critical section that trims or clears the contents
t_extend_trim(t) ==
    /\ pc[t] = "extend_trim"
    /\ WriteFree
    /\ Move(t, extend_trim(deque, loc[t].max_len, loc[t].elements),
            "extend_push", loc[t], FALSE)
    /\ UNCHANGED <<state, wlock, rlock>>

\* _extend: the critical section that appends the kept elements
t_extend_push(t) ==
    /\ pc[t] = "extend_push"
    /\ WriteFree
    /\ Move(t, deque \o extend_elements(loc[t].max_len, loc[t].elements),
            "idle", Returns(t, OkRes(<<>>)), TRUE)
    /\ UNCHANGED <<state, wlock, rlock>>

\* extendleft: the input is materialised and reversed; no fetch_add
t_extendleft_begin(t, iter) ==
    /\ CanCall(t)
    /\ LET l == [NewCall(t, "extendleft", 0, 0, iter.valid, iter.elems) EXCEPT
                    !.max_len = maxlen]
       IN  IF ~iter.valid
           THEN Move(t, deque, "idle",
                     Returned(t, l, ErrRes("TypeMismatch")), FALSE)
           ELSE Move(t, deque,
                     IF maxlen # None THEN "extendleft_trim"
                                      ELSE "extendleft_push",
                     l, FALSE)
    /\ UNCHANGED <<state, wlock, rlock>>

t_extendleft_trim(t) ==
    /\ pc[t] = "extendleft_trim"
    /\ WriteFree
    /\ Move(t, extendleft_trim(deque, loc[t].max_len, Reverse(loc[t].elements)),
            "extendleft_push", loc[t], FALSE)
    /\ UNCHANGED <<state, wlock, rlock>>

t_extendleft_push(t) ==
    /\ pc[t] = "extendleft_push"
    /\ WriteFree
    /\ Move(t, extendleft_elements(loc[t].max_len, Reverse(loc[t].elements))
                    \o deque,
            "idle", Returns(t, OkRes(<<>>)), FALSE)
    /\ UNCHANGED <<state, wlock, rlock>>

\* __init__ beside other calls: the arguments are parsed and the iterable
\* is materialised and trimmed before the lock is taken ...
t_init_begin(t, iterable, arg) ==
    /\ CanCall(t)
    /\ LET m == init_maxlen(arg)
           l == [NewCall(t, "init", 0, 0, iterable.valid,
                         init_elements(iterable.elems, m.maxlen)) EXCEPT
                    !.max_len = m.maxlen]
       IN  IF m.err # ""
           THEN Move(t, deque, "idle", Returned(t, l, ErrRes(m.err)), FALSE)
           ELSE IF ~iterable.valid
           THEN Move(t, deque, "idle",
                     Returned(t, l, ErrRes("TypeMismatch")), FALSE)
           ELSE Move(t, deque, "init_lock", l, FALSE)
    /\ UNCHANGED <<state, wlock, rlock>>

\* ... and under the write lock the contents are cleared, maxlen is
\* overwritten and the elements are stored
t_init_lock(t) ==
    /\ pc[t] = "init_lock"
    /\ WriteFree
    /\ deque' = loc[t].elements
    /\ maxlen' = loc[t].max_len
    /\ pc' = [pc EXCEPT ![t] = "idle"]
    /\ loc' = [loc EXCEPT ![t] = Returns(t, OkRes(<<>>))]
    /\ obs' = Observe(t, deque', "init", FALSE)
    /\ UNCHANGED <<state, wlock, rlock, it, svars>>

\* reverse: the reversed copy is made under the read lock ...
t_reverse_read(t) ==
    /\ CanCall(t)
    /\ wlock = 0
    /\ Move(t, deque, "reverse_write",
            [NewCall(t, "reverse", 0, 0, TRUE, <<>>) EXCEPT
                !.tmp = Reverse(deque)],
            FALSE)
    /\ UNCHANGED <<state, wlock, rlock>>

\* ... and stored under the write lock, taken afterwards
t_reverse_write(t) ==
    /\ pc[t] = "reverse_write"
    /\ WriteFree
    /\ Move(t, loc[t].tmp, "idle", Returns(t, OkRes(<<>>)), FALSE)
    /\ UNCHANGED <<state, wlock, rlock>>

\* __imul__: _mul builds the repeated contents under the read lock ...
t_imul_read(t, n) ==
    /\ CanCall(t)
    /\ wlock = 0
    /\ LET r == check_repeat_or_overflow_error(Len(deque), n)
           l == NewCall(t, "imul", 0, n, TRUE, <<>>)
       IN  IF r = None
           THEN Move(t, deque, "idle",
                     Returned(t, l, ErrRes("SizeOverflow")), FALSE)
           ELSE /\ Len(mul_deque(deque, maxlen, r[1])) <= MaxLen
                /\ Move(t, deque, "imul_write",
                        [l EXCEPT !.tmp = mul_deque(deque, maxlen, r[1])],
                        FALSE)
    /\ UNCHANGED <<state, wlock, rlock>>

\* ... and they are stored under the write lock, taken afterwards
t_imul_write(t) ==
    /\ pc[t] = "imul_write"
    /\ WriteFree
    /\ Move(t, loc[t].tmp, "idle", Returns(t, OkRes(<<>>)), FALSE)
    /\ UNCHANGED <<state, wlock, rlock>>

\* __setitem__ and __delitem__: one critical section
t_setitem(t, idx, value) ==
    /\ CanCall(t)
    /\ WriteFree
    /\ LET i == wrapped_at(idx, Len(deque))
           l == NewCall(t, "setitem", value, idx, TRUE, <<>>)
       IN  IF i = None
           THEN Move(t, deque, "idle",
                     Returned(t, l, ErrRes("OutOfRange")), FALSE)
           ELSE Move(t, SetAt(deque, i[1], value), "idle",
                     Returned(t, l, OkRes(<<>>)), FALSE)
    /\ UNCHANGED <<state, wlock, rlock>>

t_delitem(t, idx) ==
    /\ CanCall(t)
    /\ WriteFree
    /\ LET i == wrapped_at(idx, Len(deque))
           l == NewCall(t, "delitem", 0, idx, TRUE, <<>>)
       IN  IF i = None
           THEN Move(t, deque, "idle",
                     Returned(t, l, ErrRes("OutOfRange")), FALSE)
           ELSE Move(t, RemoveAt(deque, i[1]), "idle",
                     Returned(t, l, OkRes(<<>>)), FALSE)
    /\ UNCHANGED <<state, wlock, rlock>>


\* ----------------------------------------------------------------- scans
\* count, index, __contains__ and remove load state, scan, and load state
\* again.  The scan (MutObjectSequenceOp) takes the read lock for each
\* element it fetches and compares the element outside the lock.
NoStop == MaxLen + 2     \* the range end isize::MAX of count, contains, remove

ScanBegin(t, op, needle) ==
    /\ CanCall(t)
    /\ pc' = [pc EXCEPT ![t] = IF op = "index" THEN "index_len" ELSE "scan"]
    /\ loc' = [loc EXCEPT ![t] =
                  [NewCall(t, op, needle, 0, TRUE, <<>>) EXCEPT
                      !.start_state = state, !.stop = NoStop]]
    /\ obs' = [obs EXCEPT !.dirty[t] = FALSE]
    /\ UNCHANGED <<deque, maxlen, state, wlock, rlock, it, svars>>

t_count_begin(t, obj) == ScanBegin(t, "count", obj)
t_index_begin(t, needle) == ScanBegin(t, "index", needle)
t_contains_begin(t, needle) == ScanBegin(t, "contains", needle)
t_remove_begin(t, obj) == ScanBegin(t, "remove", obj)

\* index: range.saturate(self.__len__()) with no range given: 0..len
t_index_len(t) ==
    /\ pc[t] = "index_len"
    /\ wlock = 0
    /\ Move(t, deque, "scan", [loc[t] EXCEPT !.stop = Len(deque)], FALSE)
    /\ UNCHANGED <<state, wlock, rlock>>

\* one round of the scan loop: fetch element i and compare it
t_scan_step(t) ==
    /\ pc[t] = "scan"
    /\ LET l == loc[t]
       IN  IF l.i >= l.stop
           THEN Move(t, deque, "scan_end", l, FALSE)
           ELSE /\ wlock = 0
                /\ IF l.i >= Len(deque)
                   THEN Move(t, deque, "scan_end", l, FALSE)
                   ELSE IF deque[l.i + 1] = l.obj
                        THEN IF l.op = "count"
                             THEN Move(t, deque, "scan",
                                       [l EXCEPT !.count = l.count + 1,
                                                 !.i = l.i + 1], FALSE)
                             ELSE Move(t, deque, "scan_end",
                                       [l EXCEPT !.index = Some(l.i)], FALSE)
                        ELSE Move(t, deque, "scan",
                                  [l EXCEPT !.i = l.i + 1], FALSE)
    /\ UNCHANGED <<state, wlock, rlock>>

\* the comparison of an element that is not the needle itself raises
t_scan_cmp_error(t) ==
    /\ pc[t] = "scan"
    /\ loc[t].i < loc[t].stop
    /\ wlock = 0
    /\ loc[t].i < Len(deque)
    /\ deque[loc[t].i + 1] # loc[t].obj
    /\ Move(t, deque, "idle", Returns(t, ErrRes("CmpError")), FALSE)
    /\ UNCHANGED <<state, wlock, rlock>>

\* what count / index / _contains / remove do with the second load of state
count_result(l, cur) ==
    IF l.start_state # cur THEN ErrRes("ConcurrentMutation")
    ELSE OkRes(<<l.count>>)

\* index with the found position returned before state is compared
index_result_found_first(l, cur) ==
    IF l.index # None THEN OkRes(l.index)
    ELSE IF l.start_state # cur THEN ErrRes("ConcurrentMutation")
    ELSE ErrRes("NotFound")

index_result(l, cur) ==
    IF l.start_state # cur THEN ErrRes("ConcurrentMutation")
    ELSE IF l.index # None THEN OkRes(l.index)
    ELSE ErrRes("NotFound")

contains_result(l, cur) ==
    IF l.start_state # cur THEN ErrRes("ConcurrentMutation")
    ELSE OkRes(<<l.index # None>>)

remove_result(l, cur) ==
    IF l.start_state # cur THEN ErrRes("Mutated")
    ELSE IF l.index # None THEN NoRes       \* goes on to take the element out
    ELSE ErrRes("NotFound")

scan_result(l, cur) ==
    CASE l.op = "count" -> count_result(l, cur)
      [] l.op = "index" -> index_result(l, cur)
      [] l.op = "contains" -> contains_result(l, cur)
      [] l.op = "remove" -> remove_result(l, cur)

\* the second load of state and the decision
t_scan_end(t) ==
    /\ pc[t] = "scan_end"
    /\ LET l == [loc[t] EXCEPT !.end_state = Some(state)]
           r == scan_result(l, state)
       IN  IF r = NoRes
           THEN Move(t, deque, "remove_lock", l, FALSE)
           ELSE Move(t, deque, "idle", Returned(t, l, r), FALSE)
    /\ UNCHANGED <<state, wlock, rlock>>

\* remove: borrow_deque_mut(), then fetch_add under the lock
t_remove_lock(t) ==
    /\ pc[t] = "remove_lock"
    /\ WriteFree
    /\ state < MaxGen
    /\ wlock' = t
    /\ UNCHANGED rlock
    /\ state' = state + 1
    /\ Move(t, deque, "remove_take", loc[t], FALSE)

\* remove: deque.remove(index).unwrap(), still under the lock
t_remove_take(t) ==
    /\ pc[t] = "remove_take"
    /\ wlock = t
    /\ wlock' = 0
    /\ UNCHANGED rlock
    /\ LET i == loc[t].index[1]
       IN  IF i < Len(deque)
           THEN Move(t, RemoveAt(deque, i), "idle",
                     Returns(t, OkRes(<<deque[i + 1]>>)), TRUE)
           ELSE Move(t, deque, "idle", Returns(t, ErrRes("Panic")), TRUE)
    /\ UNCHANGED state

\* --------------------------------------------------------------- cursors
\* a seeded construction that starts at the head whatever the seed
iter_py_new_from_start(kind, index, st) ==
    [kind |-> kind, status |-> "Active", obj |-> Some("deque"), position |-> 0,
     state |-> st, res |-> NoRes]

\* py_new of the two cursor classes: new / __reversed__ give a cursor at
\* position 0 that captures state; an index that is present moves the
\* position to max(index, 0)
iter_py_new(kind, index, st) ==
    [kind |-> kind, status |-> "Active", obj |-> Some("deque"),
     position |-> IF index = None THEN 0 ELSE Max(index[1], 0),
     state |-> st, res |-> NoRes]

\* the construction of the cursor by thread t; `index` is None for
\* PyDequeIterator::new and __reversed__
NewIterAt(t, kind, index) ==
    /\ pc[t] = "idle"
    /\ it.status = "None"
    /\ it' = iter_py_new(kind, index, state)
    /\ obs' = [obs EXCEPT !.completed = FALSE,
                          !.born_clean = \A u \in Threads \ {t} : pc[u] = "idle",
                          !.orig = deque,
                          !.seed = index]
    /\ UNCHANGED <<deque, maxlen, state, pc, loc, wlock, rlock, svars>>

\* PyDequeIterator::new and __reversed__: the cursor captures state
NewIter(t, kind) == NewIterAt(t, kind, None)

\* the constructors called with a deque and an index
t_iter_py_new(t, index) == NewIterAt(t, "fwd", Some(index))
t_reversed_py_new(t, index) == NewIterAt(t, "rev", Some(index))

t_iter(t) == NewIter(t, "fwd")
t_reversed(t) == NewIter(t, "rev")

\* a reverse cursor that reads from the head
reviter_get_from_head(dq, pos) ==
    IF pos < Len(dq) THEN Some(dq[pos + 1]) ELSE None

\* the element a reverse cursor at pos reads:
\* deque.len().checked_sub(pos + 1).and_then(|pos| deque.get(pos))
reviter_get(dq, pos) ==
    IF Len(dq) >= pos + 1 THEN Some(dq[Len(dq) - (pos + 1) + 1]) ELSE None

\* the closure's first statement: compare the captured state
iter_mutated(captured, cur) == captured # cur

\* a remaining-length estimate that does not look at the status
length_hint_any_status(i, len) == SatSub(len, i.position)

\* __length_hint__: PositionIterInternal::length_hint with obj.__len__(),
\* what is left after the position while Active, 0 once Exhausted
length_hint(i, len) ==
    IF i.status = "Active" THEN SatSub(len, i.position) ELSE 0

\* an advance that reports the mutation and leaves the cursor Active
t_next_begin_keeps_active(t) ==
    /\ CanCall(t)
    /\ it.status # "None"
    /\ obs' = [obs EXCEPT !.at_begin = obs.completed /\ it.status = "Active",
                          !.completed = FALSE]
    /\ IF it.status = "Exhausted"
       THEN /\ it' = [it EXCEPT !.res = [kind |-> "Stop", err |-> "", val |-> <<>>]]
            /\ pc' = pc
       ELSE IF iter_mutated(it.state, state)
            THEN /\ it' = [it EXCEPT !.res = ErrRes("ConcurrentMutation")]
                 /\ pc' = pc
            ELSE /\ it' = [it EXCEPT !.res = NoRes]
                 /\ pc' = [pc EXCEPT ![t] = "next_read"]
    /\ loc' = [loc EXCEPT ![t] = NewCall(t, "next", 0, 0, TRUE, <<>>)]
    /\ UNCHANGED <<deque, maxlen, state, wlock, rlock, svars>>

\* next, up to the comparison of the captured state with deque.state
t_next_begin(t) ==
    /\ CanCall(t)
    /\ it.status # "None"
    /\ obs' = [obs EXCEPT !.at_begin = obs.completed /\ it.status = "Active",
                          !.completed = FALSE]
    /\ IF it.status = "Exhausted"
       THEN /\ it' = [it EXCEPT !.res = [kind |-> "Stop", err |-> "", val |-> <<>>]]
            /\ pc' = pc
       ELSE IF iter_mutated(it.state, state)
            THEN /\ it' = [it EXCEPT !.res = ErrRes("ConcurrentMutation"),
                                     !.status = "Exhausted", !.obj = None]
                 /\ pc' = pc
            ELSE /\ it' = [it EXCEPT !.res = NoRes]
                 /\ pc' = [pc EXCEPT ![t] = "next_read"]
    /\ loc' = [loc EXCEPT ![t] = NewCall(t, "next", 0, 0, TRUE, <<>>)]
    /\ UNCHANGED <<deque, maxlen, state, wlock, rlock, svars>>

\* an advance that goes back to the head when it finds no element
t_next_read_rewinds(t) ==
    /\ pc[t] = "next_read"
    /\ wlock = 0
    /\ LET r == IF it.kind = "fwd" THEN iter_get(deque, it.position)
                ELSE reviter_get(deque, it.position)
       IN  it' = IF r # None
                 THEN [it EXCEPT !.res = [kind |-> "Return", err |-> "", val |-> r],
                                 !.position = it.position + 1]
                 ELSE [it EXCEPT !.res = [kind |-> "Stop", err |-> "", val |-> <<>>],
                                 !.status = "Exhausted", !.obj = None,
                                 !.position = 0]
    /\ pc' = [pc EXCEPT ![t] = "idle"]
    /\ UNCHANGED <<deque, maxlen, state, loc, wlock, rlock, obs, svars>>

\* next, from borrow_deque() on: read the element, move the position
t_next_read(t) ==
    /\ pc[t] = "next_read"
    /\ wlock = 0
    /\ LET r == IF it.kind = "fwd" THEN iter_get(deque, it.position)
                ELSE reviter_get(deque, it.position)
       IN  it' = IF r # None
                 THEN [it EXCEPT !.res = [kind |-> "Return", err |-> "", val |-> r],
                                 !.position = it.position + 1]
                 ELSE [it EXCEPT !.res = [kind |-> "Stop", err |-> "", val |-> <<>>],
                                 !.status = "Exhausted", !.obj = None]
    /\ pc' = [pc EXCEPT ![t] = "idle"]
    /\ UNCHANGED <<deque, maxlen, state, loc, wlock, rlock, obs, svars>>

\* a serialized form that names the container whatever the status
iter_reduce_keeps_deque(i) == <<"deque", i.position>>

\* __reduce__ of the two cursor classes, without the class: the deque of
\* Active(obj), or PyDeque::default() once Exhausted, and the position
iter_reduce(i) ==
    <<IF i.status = "Active" THEN i.obj[1] ELSE "default", i.position>>

t_iter_reduce(t) ==
    /\ pc[t] = "idle"
    /\ it.status # "None"
    /\ loc' = [loc EXCEPT ![t] = [loc[t] EXCEPT !.op = "reduce",
                                                 !.res = OkRes(iter_reduce(it))]]
    /\ UNCHANGED <<deque, maxlen, state, pc, wlock, rlock, it, obs, svars>>

\* the seeds of a constructor call: negative, in range, at and past the end
SeedIdx == -1..MaxLen

\* the indices and rotations the other thread uses: in range, out of range
CIdx == {-1, 0, 1}

\* ---------------------------------------- a scan beside a mutating thread
MaxMut == 1     \* calls the mutating thread makes beside a scan
MaxAdv == 4     \* advances of the cursor

InitScan == InitWith({None, Some(2)}, [t \in Threads |-> IF t = 1 THEN 1 ELSE MaxMut], FALSE)

NextScan ==
    \/ \E obj \in Vals : t_count_begin(1, obj)
    \/ \E obj \in Vals : t_index_begin(1, obj)
    \/ \E obj \in Vals : t_contains_begin(1, obj)
    \/ \E obj \in Vals : t_remove_begin(1, obj)
    \/ t_index_len(1)
    \/ t_scan_step(1)
    \/ t_scan_cmp_error(1)
    \/ t_scan_end(1)
    \/ t_remove_lock(1)
    \/ t_remove_take(1)
    \/ \E obj \in Vals : t_append_begin(2, obj)
    \/ t_append_lock(2)
    \/ \E obj \in Vals : t_appendleft_begin(2, obj)
    \/ t_appendleft_lock(2)
    \/ t_clear_begin(2)
    \/ t_clear_lock(2)
    \/ \E idx \in CIdx, obj \in Vals : t_insert_begin(2, idx, obj)
    \/ t_insert_lock(2)
    \/ t_pop_begin(2)
    \/ t_pop_lock(2)
    \/ t_popleft_begin(2)
    \/ t_popleft_lock(2)
    \/ \E mid \in CIdx : t_rotate_begin(2, mid)
    \/ t_rotate_lock(2)
    \/ \E iter \in Inputs : t_extend_begin(2, iter)
    \/ t_extend_trim(2)
    \/ t_extend_push(2)
    \/ \E idx \in CIdx : t_delitem(2, idx)

SpecScan == InitScan /\ [][NextScan]_vars

\* ------------------------- a cursor beside one call of a mutating thread
InitIter == InitWith({None, Some(2)}, [t \in Threads |-> IF t = 1 THEN MaxAdv ELSE 1], FALSE)

NextIter ==
    \/ t_iter(1)
    \/ t_reversed(1)
    \/ t_next_begin(1)
    \/ t_next_read(1)
    \/ \E obj \in Vals : t_append_begin(2, obj)
    \/ t_append_lock(2)
    \/ \E obj \in Vals : t_appendleft_begin(2, obj)
    \/ t_appendleft_lock(2)
    \/ t_clear_begin(2)
    \/ t_clear_lock(2)
    \/ \E idx \in CIdx, obj \in Vals : t_insert_begin(2, idx, obj)
    \/ t_insert_lock(2)
    \/ t_pop_begin(2)
    \/ t_pop_lock(2)
    \/ t_popleft_begin(2)
    \/ t_popleft_lock(2)
    \/ \E mid \in CIdx : t_rotate_begin(2, mid)
    \/ t_rotate_lock(2)
    \/ \E iter \in Inputs : t_extend_begin(2, iter)
    \/ t_extend_trim(2)
    \/ t_extend_push(2)
    \/ \E obj \in Vals : t_remove_begin(2, obj)
    \/ t_scan_step(2)
    \/ t_scan_cmp_error(2)
    \/ t_scan_end(2)
    \/ t_remove_lock(2)
    \/ t_remove_take(2)

SpecIter == InitIter /\ [][NextIter]_vars

\* ------------------ a container compared with itself beside one append
\* Comparable::cmp of a container with itself: the identity shortcut
\* answers == and != before any lock is taken
t_cmp_begin(t, op) ==
    /\ CanCall(t)
    /\ LET res == identical_optimization(op, TRUE)
           l == [NewCall(t, "cmp", 0, 0, TRUE, <<>>) EXCEPT !.tmp = <<op>>]
       IN  IF res # None
           THEN Move(t, deque, "idle", Returned(t, l, OkRes(<<res[1]>>)), FALSE)
           ELSE Move(t, deque, "cmp_lhs", l, FALSE)
    /\ UNCHANGED <<state, wlock, rlock>>

\* let lhs = zelf.borrow_deque(): a read guard that is kept
t_cmp_lhs(t) ==
    /\ pc[t] = "cmp_lhs"
    /\ ReadFree
    /\ rlock' = [rlock EXCEPT ![t] = rlock[t] + 1]
    /\ Move(t, deque, "cmp_rhs", loc[t], FALSE)
    /\ UNCHANGED <<state, wlock>>

\* let rhs = other.borrow_deque(): a second read guard, on the same lock
\* when other is zelf
t_cmp_rhs(t) ==
    /\ pc[t] = "cmp_rhs"
    /\ ReadFree
    /\ rlock' = [rlock EXCEPT ![t] = rlock[t] + 1]
    /\ Move(t, deque, "cmp_walk", loc[t], FALSE)
    /\ UNCHANGED <<state, wlock>>

\* richcompare under both guards, which are dropped at the return
t_cmp_walk(t) ==
    /\ pc[t] = "cmp_walk"
    /\ rlock' = [rlock EXCEPT ![t] = 0]
    /\ Move(t, deque, "idle",
            Returns(t, OkRes(<<richcompare(deque, deque, loc[t].tmp[1]).res>>)),
            FALSE)
    /\ UNCHANGED <<state, wlock>>

InitCmpLock == InitWith({None, Some(2)}, [t \in Threads |-> 1], FALSE)

CmpCall(t) ==
    \/ \E op \in CmpOps : t_cmp_begin(t, op)
    \/ t_cmp_lhs(t)
    \/ t_cmp_rhs(t)
    \/ t_cmp_walk(t)

AppendCall(t) ==
    \/ \E obj \in Vals : t_append_begin(t, obj)
    \/ t_append_lock(t)

NextCmpLock == CmpCall(1) \/ AppendCall(2)

\* every thread that can take a step eventually takes one
SpecCmpLock ==
    /\ InitCmpLock
    /\ [][NextCmpLock]_vars
    /\ WF_vars(CmpCall(1))
    /\ WF_vars(AppendCall(2))

\* --------------- a re-initialisation beside one push or bulk call
InitReinit == InitWith({None, Some(2)}, [t \in Threads |-> 1], FALSE)

NextReinit ==
    \/ \E iterable \in Inputs, arg \in MaxlenArgs : t_init_begin(1, iterable, arg)
    \/ t_init_lock(1)
    \/ \E obj \in Vals : t_append_begin(2, obj)
    \/ t_append_lock(2)
    \/ \E iter \in Inputs : t_extend_begin(2, iter)
    \/ t_extend_trim(2)
    \/ t_extend_push(2)
    \/ \E iter \in Inputs : t_extendleft_begin(2, iter)
    \/ t_extendleft_trim(2)
    \/ t_extendleft_push(2)

SpecReinit == InitReinit /\ [][NextReinit]_vars

\* ---------- cursors built with and without a seed, advanced, serialized,
\* beside one append of the other thread
NextSeed ==
    \/ t_iter(1)
    \/ t_reversed(1)
    \/ \E index \in SeedIdx : t_iter_py_new(1, index)
    \/ \E index \in SeedIdx : t_reversed_py_new(1, index)
    \/ t_iter_reduce(1)
    \/ t_next_begin(1)
    \/ t_next_read(1)
    \/ \E obj \in Vals : t_append_begin(2, obj)
    \/ t_append_lock(2)
    \/ t_reverse_read(2)
    \/ t_reverse_write(2)

SpecSeed == InitIter /\ [][NextSeed]_vars


\* ------------------------------------------- two mutating calls at once
\* what the call with locals c does to contents dq when nothing interleaves
Effect(c, dq) ==
    CASE c.op = "append" -> append_locked(dq, maxlen, c.obj)
      [] c.op = "appendleft" -> appendleft_locked(dq, maxlen, c.obj)
      [] c.op = "clear" -> <<>>
      [] c.op = "extend" ->
            IF c.valid
            THEN extend_trim(dq, maxlen, c.elements)
                     \o extend_elements(maxlen, c.elements)
            ELSE dq
      [] c.op = "extendleft" ->
            IF c.valid
            THEN extendleft_elements(maxlen, Reverse(c.elements))
                     \o extendleft_trim(dq, maxlen, Reverse(c.elements))
            ELSE dq
      [] c.op = "insert" ->
            IF maxlen = Some(Len(dq)) THEN dq
            ELSE InsertAt(dq, insert_index(c.idx, Len(dq)), c.obj)
      [] c.op = "pop" -> pop_back(dq)
      [] c.op = "popleft" -> pop_front(dq)
      [] c.op = "rotate" -> rotate_locked(dq, c.idx)
      [] c.op = "setitem" ->
            LET i == wrapped_at(c.idx, Len(dq))
            IN  IF i = None THEN dq ELSE SetAt(dq, i[1], c.obj)
      [] c.op = "delitem" ->
            LET i == wrapped_at(c.idx, Len(dq))
            IN  IF i = None THEN dq ELSE RemoveAt(dq, i[1])
      [] c.op = "reverse" -> Reverse(dq)
      [] c.op = "imul" ->
            LET r == check_repeat_or_overflow_error(Len(dq), c.idx)
            IN  IF r = None THEN dq ELSE mul_deque(dq, maxlen, r[1])

InitMut == InitWith({None, Some(2)}, [t \in Threads |-> 1], TRUE)

MutCall(t) ==
    \/ \E obj \in Vals : t_append_begin(t, obj)
    \/ t_append_lock(t)
    \/ \E obj \in Vals : t_appendleft_begin(t, obj)
    \/ t_appendleft_lock(t)
    \/ t_clear_begin(t)
    \/ t_clear_lock(t)
    \/ \E idx \in CIdx, obj \in Vals : t_insert_begin(t, idx, obj)
    \/ t_insert_lock(t)
    \/ t_pop_begin(t)
    \/ t_pop_lock(t)
    \/ t_popleft_begin(t)
    \/ t_popleft_lock(t)
    \/ \E mid \in CIdx : t_rotate_begin(t, mid)
    \/ t_rotate_lock(t)
    \/ \E iter \in Inputs : t_extend_begin(t, iter)
    \/ t_extend_trim(t)
    \/ t_extend_push(t)
    \/ \E iter \in Inputs : t_extendleft_begin(t, iter)
    \/ t_extendleft_trim(t)
    \/ t_extendleft_push(t)
    \/ t_reverse_read(t)
    \/ t_reverse_write(t)
    \/ \E n \in -1..MaxRep : t_imul_read(t, n)
    \/ t_imul_write(t)
    \/ \E idx \in CIdx, value \in Vals : t_setitem(t, idx, value)
    \/ \E idx \in CIdx : t_delitem(t, idx)

NextMut == \E t \in Threads : MutCall(t)

SpecMut == InitMut /\ [][NextMut]_vars

\* ------------------------------------------------------------------ C1
\* C1: a bounded container (capacity c >= 0, c = 0 included) never holds
\* more than c elements, whatever calls were made one at a time.
C1_LenWithinCapacity ==
    maxlen # None => Len(deque) <= maxlen[1]

\* ------------------------------------------------------------------ C2
\* C2: from an empty container with capacity c, k push-back calls leave the
\* last min(c, k) pushed values in push order, and k push-front calls leave
\* the last min(c, k) pushed values newest first.
C2_PushKeepsNewest ==
    maxlen # None =>
        LET kept == LastN(pushed, Min(maxlen[1], Len(pushed)))
        IN  /\ pmode = "back" => deque = kept
            /\ pmode = "front" => deque = Reverse(kept)

\* ------------------------------------------------------------------ C7
\* C7: a call that fails leaves the container as it was: the same elements
\* in the same order, the same capacity and the same generation.
C7_FailureChangesNothing ==
    [][ret'.kind = "Err" =>
          /\ deque' = deque
          /\ maxlen' = maxlen
          /\ state' = state]_vars

\* ------------------------------------------------------------------ C8
\* C8: with nothing interleaved, remove(v) on contents that hold v takes out
\* exactly the lowest-index element equal to v, returns it, keeps the order
\* of the others and adds exactly 1 to the generation; on contents without
\* v it fails with NotFound and changes neither elements nor generation.
C8_RemoveFirstMatch ==
    [][ret'.op = "remove" =>
          LET v == ret'.arg
              hits == {i \in 1..Len(deque) : deque[i] = v}
          IN  IF hits # {}
              THEN LET k == CHOOSE i \in hits : \A j \in hits : i <= j
                   IN  /\ ret'.kind = "Ok"
                       /\ ret'.val = <<v>>
                       /\ Len(deque') = Len(deque) - 1
                       /\ \A i \in 1..(k - 1) : deque'[i] = deque[i]
                       /\ \A i \in k..Len(deque') : deque'[i] = deque[i + 1]
                       /\ state' = state + 1
              ELSE /\ ret'.kind = "Err"
                   /\ ret'.err = "NotFound"
                   /\ deque' = deque
                   /\ state' = state]_vars

\* a remove that succeeded on contents holding v more than once: another
\* v is still there, behind an element that is not v
C8_Witness ==
    /\ ret.op = "remove"
    /\ ret.kind = "Ok"
    /\ Len(deque) >= 2
    /\ deque[1] # ret.arg
    /\ \E i \in 2..Len(deque) : deque[i] = ret.arg

\* ------------------------------------------------------------------ C3
\* C3: when a call that adds to the generation completes after the cursor
\* was constructed and before the cursor's next advance begins, that
\* advance fails with ConcurrentMutation and returns no element, whatever
\* the position of the cursor (a cursor that is still Active when the
\* advance begins; an Exhausted one keeps reporting the end of sequence).
C3_MutationFailsNextAdvance ==
    (pc[1] = "idle" /\ it.res.kind # "None" /\ obs.at_begin)
        => it.res = ErrRes("ConcurrentMutation")

\* ------------------------------------------------------------------ C4
\* C4: count, index and the membership test return a result only when the
\* state loaded after the scan equals the state loaded before it; when the
\* two differ the call fails with ConcurrentMutation, match or no match;
\* and after the scan the call never goes back to scanning.
C4_Validated ==
    \A t \in Threads :
        (pc[t] = "idle" /\ loc[t].op \in {"count", "index", "contains"}
             /\ loc[t].res.kind # "None")
        => /\ loc[t].res.kind = "Ok"
                  => loc[t].end_state = Some(loc[t].start_state)
           /\ (loc[t].end_state # None
                  /\ loc[t].end_state # Some(loc[t].start_state))
                  => loc[t].res = ErrRes("ConcurrentMutation")

C4_NoRetry ==
    \A t \in Threads :
        pc[t] = "scan_end" => pc'[t] \notin {"scan", "index_len"}

C4_ScanValidatesOnce == [](C4_Validated) /\ [][C4_NoRetry]_vars

\* an index call that found its needle and failed all the same, because
\* state had moved
C4_Witness ==
    /\ pc[1] = "idle"
    /\ loc[1].op = "index"
    /\ loc[1].index # None
    /\ loc[1].end_state # Some(loc[1].start_state)
    /\ loc[1].res = ErrRes("ConcurrentMutation")

\* ------------------------------------------------------------------ C5
\* C5: when a push, pop, clear, insert, rotate or bulk-append of another
\* thread changes the elements between a scan's first and last load of
\* state, the scan fails (with ConcurrentMutation, or with the error its
\* comparison raised): it never returns a result.
C5_ScanDetectsWriters ==
    \A t \in Threads :
        (pc[t] = "idle" /\ loc[t].op \in {"count", "index", "contains"}
             /\ loc[t].res.kind # "None" /\ obs.dirty[t])
        => loc[t].res.err \in {"ConcurrentMutation", "CmpError"}

\* ------------------------------------------------------------------ C6
\* C6: beside a single mutating call made after the cursor was constructed,
\* an advance that returns an element returns the one the contents held at
\* the cursor's position before that call.
C6_AdvanceReadsUnmodified ==
    (it.res.kind = "Return" /\ obs.born_clean)
        => it.res.val = IF it.kind = "fwd"
                        THEN iter_get(obs.orig, it.position - 1)
                        ELSE reviter_get(obs.orig, it.position - 1)

\* ------------------------------------------------------------------ C9
\* C9: remove takes an element out only if the generation has not changed
\* since its scan began, so that the index it uses is in range and holds
\* the element its scan matched.
C9_RemoveTakesItsMatch ==
    \A t \in Threads :
        pc[t] = "remove_take"
        => /\ state = loc[t].start_state + 1
           /\ loc[t].index[1] < Len(deque)
           /\ deque[loc[t].index[1] + 1] = loc[t].obj

\* ----------------------------------------------------------------- C10
\* C10: two mutating calls made at the same time leave the contents that
\* making them one after the other, in one of the two orders, leaves.
C10_MutatorsSerialise ==
    (\A t \in Threads : pc[t] = "idle" /\ loc[t].op # "none")
        => deque \in {Effect(loc[2], Effect(loc[1], obs.d0)),
                      Effect(loc[1], Effect(loc[2], obs.d0))}

\* ----------------------------------------------------------------- C11
\* C11: a bounded container with capacity c >= 1 holds at most c elements
\* in every state of every interleaving of extend or extendleft calls with
\* append or appendleft calls of another thread.
C11_BulkOps == {"none", "extend", "extendleft", "append", "appendleft"}

C11_BoundedWhileBulkAppending ==
    (/\ maxlen # None
     /\ maxlen[1] >= 1
     /\ \A t \in Threads : loc[t].op \in C11_BulkOps)
        => Len(deque) <= maxlen[1]

\* ----------------------------------------------------------------- C12
\* C12: each call of append, appendleft, pop, popleft, clear, insert or
\* rotate that succeeds adds exactly 1 to the generation, also when it
\* leaves the elements as they were; an extend call adds exactly 1 however
\* many elements it appends.
C12_BumpingCalls ==
    {"append", "appendleft", "pop", "popleft", "clear", "insert", "rotate",
     "extend"}

C12_BumpsByOne ==
    [][(ret'.op \in C12_BumpingCalls /\ ret'.kind = "Ok")
          => state' = state + 1]_vars

\* rotate has just returned on an empty container, and state has moved
C12_Witness ==
    /\ ret.op = "rotate"
    /\ ret.kind = "Ok"
    /\ deque = <<>>
    /\ state = 1

\* ----------------------------------------------------------------- C13
\* C13: __setitem__, __delitem__, reverse, __imul__ and extendleft leave
\* the generation as it was, whether they succeed or fail and whatever
\* they do to the elements.
C13_SilentCalls ==
    {"setitem", "delitem", "reverse", "imul", "extendleft"}

C14_GenerationNeverDecreases ==
    (state = 0) /\ [][state' >= state]_vars

\* two calls made at the same time have both added to the generation
C14_Witness ==
    /\ \A t \in Threads : pc[t] = "idle" /\ loc[t].op \in BumpingOps
    /\ state = 2

\* ----------------------------------------------------------------- C15
\* C15: once a forward or reverse cursor is Exhausted, every further
\* advance reports the end of the sequence (no element, no error) and
\* leaves position and status as they were, and the remaining-length
\* estimate is 0, also when elements are pushed afterwards.
C15_HintIsZero ==
    it.status = "Exhausted" => length_hint(it, Len(deque)) = 0

C15_StaysExhausted ==
    it.status = "Exhausted"
        => /\ it'.status = "Exhausted"
           /\ it'.position = it.position
           /\ loc'[1].calls # loc[1].calls => it'.res.kind = "Stop"

C15_ExhaustedIsFinal == [](C15_HintIsZero) /\ [][C15_StaysExhausted]_vars

\* an Exhausted forward cursor has reported the end of the sequence in an
\* advance begun after a call of the other thread, made while the cursor
\* was Exhausted, had put an element at the cursor's position
C15_Witness ==
    /\ it.kind = "fwd"
    /\ it.status = "Exhausted"
    /\ it.res.kind = "Stop"
    /\ pc = [t \in Threads |-> "idle"]
    /\ obs.late
    /\ ~obs.completed
    /\ it.position < Len(deque)

\* ----------------------------------------------------------------- C16
\* C16: in every reachable state, replaying the description __reduce__
\* gives (the constructor called with the captured capacity argument, then
\* every element the captured cursor yields pushed back, the original not
\* being changed meanwhile) makes a container with the same elements in
\* the same order and the same capacity.
C16_ReduceRoundTrip ==
    ret.op = "reduce"
        => LET made == replay(ret.val, deque)
           IN  /\ made.deque = deque
               /\ made.maxlen = maxlen

\* the description of a bounded container that is full
C16_Witness ==
    /\ ret.op = "reduce"
    /\ maxlen # None
    /\ Len(deque) = maxlen[1]
    /\ Len(deque) >= 2
    /\ deque[1] # deque[2]

\* ----------------------------------------------------------------- C17
\* C17: extend of a sequence s on contents e with capacity c leaves the
\* last min(c, |e| + |s|) elements of e followed by s, in order; without a
\* capacity it leaves e followed by s.
C17_ExtendKeepsTail ==
    [][(ret'.op = "extend" /\ ret'.kind = "Ok")
          => LET all == deque \o ret'.arg
             IN  deque' = IF maxlen = None THEN all
                          ELSE LastN(all, Min(maxlen[1], Len(all)))]_vars

\* an extend with more elements than the capacity: only the last ones stay
C17_Witness ==
    /\ ret.op = "extend"
    /\ ret.kind = "Ok"
    /\ maxlen # None
    /\ maxlen[1] >= 1
    /\ Len(ret.arg) > maxlen[1]
    /\ ret.arg[1] # ret.arg[Len(ret.arg)]
    /\ deque = LastN(ret.arg, maxlen[1])

\* ----------------------------------------------------------------- C18
\* C18: extendleft of a sequence s on contents e with capacity c leaves the
\* first min(c, |s| + |e|) elements of reverse(s) followed by e; without a
\* capacity it leaves reverse(s) followed by e.
C18_ExtendleftKeepsHead ==
    [][(ret'.op = "extendleft" /\ ret'.kind = "Ok")
          => LET all == Reverse(ret'.arg) \o deque
             IN  deque' = IF maxlen = None THEN all
                          ELSE FirstN(all, Min(maxlen[1], Len(all)))]_vars

\* an extendleft of two different elements on a bounded container that
\* kept one of its own elements behind them
C18_Witness ==
    /\ ret.op = "extendleft"
    /\ ret.kind = "Ok"
    /\ maxlen = Some(3)
    /\ Len(ret.arg) = 2
    /\ ret.arg[1] # ret.arg[2]
    /\ Len(deque) = 3
    /\ FirstN(deque, 2) = Reverse(ret.arg)

\* ----------------------------------------------------------------- C19
\* C19: insert(idx, x) on a container of length n that is not at capacity
\* never fails, whatever the signed index: x is placed at n + idx when
\* -n <= idx < 0, at 0 when idx < -n, at idx when 0 <= idx <= n and at n
\* when idx > n; the other elements keep their order and the length
\* becomes n + 1.
C19_InsertClamps ==
    [][(ret'.op = "insert" /\ maxlen # Some(Len(deque)))
          => LET n == Len(deque)
                 idx == ret'.arg[1]
                 at == IF idx < -n THEN 0
                       ELSE IF idx < 0 THEN n + idx
                       ELSE IF idx <= n THEN idx
                       ELSE n
             IN  /\ ret'.kind = "Ok"
                 /\ Len(deque') = n + 1
                 /\ deque'[at + 1] = ret'.arg[2]
                 /\ RemoveAt(deque', at) = deque]_vars

\* ----------------------------------------------------------------- C20
\* C20: insert on a bounded container whose length equals its capacity
\* fails with Full for every index, evicts nothing and leaves the elements
\* and their order as they were.
C20_InsertAtCapacityFails ==
    [][(ret'.op = "insert" /\ maxlen = Some(Len(deque)))
          => /\ ret'.kind = "Err"
             /\ ret'.err = "Full"
             /\ deque' = deque]_vars

\* an insert has just failed on a full container that holds elements
C20_Witness ==
    /\ ret.op = "insert"
    /\ ret.err = "Full"
    /\ maxlen # None
    /\ Len(deque) = maxlen[1]
    /\ Len(deque) >= 2
    /\ deque[1] # deque[2]

\* ----------------------------------------------------------------- C21
\* C21: on a container of length n >= 1, for every i with 0 <= i < n the
\* indexed reads at i and at i - n return the same element; the read at -1
\* returns the element at n - 1.
C21_NegativeIndexLaw ==
    LET n == Len(deque)
    IN  \A i \in 0..(n - 1) :
            /\ getitem_value(deque, i) = Some(deque[i + 1])
            /\ getitem_value(deque, i - n) = getitem_value(deque, i)

\* the read at -1 has just returned the last of three elements, which is
\* not the one before it
C21_Witness ==
    /\ ret.op = "getitem"
    /\ ret.arg = -1
    /\ Len(deque) = 3
    /\ deque[3] # deque[2]
    /\ ret.val = <<deque[3]>>

\* ----------------------------------------------------------------- C22
\* C22: on a container of length n, the indexed read, write and delete at
\* an index i >= n or i < -n fail with OutOfRange and change nothing; at
\* -n <= i < n the write replaces only the element at the resolved
\* position and the delete removes only that element, the others keeping
\* their order.
C22_IndexedOps == {"getitem", "setitem", "delitem"}

C22_IndexedAccess ==
    [][ret'.op \in C22_IndexedOps
          => LET n == Len(deque)
                 i == IF ret'.op = "setitem" THEN ret'.arg[1] ELSE ret'.arg
                 at == IF i < 0 THEN n + i ELSE i
             IN  IF i >= n \/ i < -n
                 THEN /\ ret'.kind = "Err"
                      /\ ret'.err = "OutOfRange"
                      /\ deque' = deque
                 ELSE /\ ret'.kind = "Ok"
                      /\ ret'.op = "getitem"
                            => deque' = deque /\ ret'.val = <<deque[at + 1]>>
                      /\ ret'.op = "setitem"
                            => /\ Len(deque') = n
                               /\ deque'[at + 1] = ret'.arg[2]
                               /\ \A j \in 1..n : j # at + 1 => deque'[j] = deque[j]
                      /\ ret'.op = "delitem"
                            => /\ Len(deque') = n - 1
                               /\ \A j \in 1..at : deque'[j] = deque[j]
                               /\ \A j \in (at + 1)..(n - 1) : deque'[j] = deque[j + 1]]_vars

\* a delete at a negative index has just taken the middle element out of
\* three
C22_Witness ==
    /\ ret.op = "delitem"
    /\ ret.kind = "Ok"
    /\ ret.arg = -2
    /\ Len(deque) = 2
    /\ deque[1] # deque[2]

\* ----------------------------------------------------------------- C23
\* C23: rotate(k) on a container of length n >= 1 moves the element at
\* position i to position (i + k) mod n, for every signed k; it never
\* changes the length or the multiset of elements; rotate(-k) after
\* rotate(k) restores the order; an empty container stays empty.
C23_Count(s, v) == Cardinality({i \in 1..Len(s) : s[i] = v})

C23_RotateMovesByK ==
    [][ret'.op = "rotate"
          => LET n == Len(deque)
                 k == ret'.arg
             IN  /\ Len(deque') = n
                 /\ \A i \in 0..(n - 1) : deque'[((i + k) % n) + 1] = deque[i + 1]
                 /\ \A v \in Vals : C23_Count(deque', v) = C23_Count(deque, v)
                 /\ rotate_locked(deque', -k) = deque
                 /\ n = 0 => deque' = <<>>]_vars

\* rotate(-1) has just turned [1, 2, 2] into [2, 2, 1]
C23_Witness ==
    /\ ret.op = "rotate"
    /\ ret.arg = -1
    /\ deque = <<2, 2, 1>>

\* ----------------------------------------------------------------- C24
\* C24: the concatenation of a and b returns a new container that holds
\* the last min(|a| + |b|, capacity of a) elements of a followed by b
\* (all of them when a is unbounded), with the capacity of a and
\* generation 0; a keeps its elements and its generation; when b is not a
\* container of this kind the call fails with TypeMismatch.
C24_ConcatKeepsTail ==
    [][ret'.op = "concat"
          => /\ UNCHANGED <<deque, maxlen, state>>
             /\ IF ~ret'.arg.valid
                THEN ret'.kind = "Err" /\ ret'.err = "TypeMismatch"
                ELSE LET all == deque \o ret'.arg.elems
                         keep == IF maxlen = None THEN Len(all)
                                 ELSE Min(Len(all), maxlen[1])
                     IN  /\ ret'.kind = "Ok"
                         /\ ret'.val.deque = LastN(all, keep)
                         /\ ret'.val.maxlen = maxlen
                         /\ ret'.val.state = 0]_vars

\* a full container of generation 2 has been concatenated with two
\* elements: the result dropped the two oldest elements of a
C24_Witness ==
    /\ ret.op = "concat"
    /\ ret.kind = "Ok"
    /\ maxlen = Some(3)
    /\ deque = <<1, 1, 2>>
    /\ state = 2
    /\ ret.arg.elems = <<2, 1>>
    /\ ret.val = [deque |-> <<2, 2, 1>>, maxlen |-> Some(3), state |-> 0]

\* ----------------------------------------------------------------- C25
\* C25: the repetition a * n returns a new container, of generation 0 and
\* with the capacity of a, a itself unchanged, that holds the last
\* min(|a| * n, capacity) elements of a repeated n times, and is empty
\* when n <= 0; the in-place repetition leaves exactly those elements in a
\* itself; both fail with SizeOverflow, changing nothing, when |a| * n is
\* not representable.
C25_Repeated(dq, ml, n) ==
    LET rep == Cycle(dq, Max(n, 0))
        keep == IF ml = None THEN Len(rep) ELSE Min(Len(rep), ml[1])
    IN  LastN(rep, keep)

C25_Repetition ==
    [][ret'.op \in {"mul", "imul"}
          => LET n == ret'.arg
             IN  /\ UNCHANGED <<maxlen, state>>
                 /\ IF n > 0 /\ Len(deque) * n > MAXSIZE
                    THEN /\ ret'.kind = "Err"
                         /\ ret'.err = "SizeOverflow"
                         /\ deque' = deque
                    ELSE /\ ret'.kind = "Ok"
                         /\ ret'.op = "mul"
                               => /\ deque' = deque
                                  /\ ret'.val = [deque |-> C25_Repeated(deque, maxlen, n),
                                                 maxlen |-> maxlen,
                                                 state |-> 0]
                         /\ ret'.op = "imul"
                               => deque' = C25_Repeated(deque, maxlen, n)]_vars

\* a * 2 of a = [1, 2] with capacity 3 and generation 1 has given [2, 1, 2]
C25_Witness ==
    /\ ret.op = "mul"
    /\ ret.kind = "Ok"
    /\ ret.arg = 2
    /\ deque = <<1, 2>>
    /\ maxlen = Some(3)
    /\ state = 1
    /\ ret.val.deque = <<2, 1, 2>>

\* ----------------------------------------------------------------- C26
\* C26: constructing from a sequence s with capacity c yields a container
\* that holds the last min(|s|, c) elements of s, all of s when the
\* capacity is omitted; construction with a negative or a non-integral
\* capacity fails without storing any element or capacity.
C26_Construction ==
    [][ret'.op = "init"
          => LET s == ret'.arg.iterable
                 c == ret'.arg.maxlen
             IN  IF c.kind = "other" \/ (c.kind = "int" /\ c.v < 0)
                 THEN /\ ret'.kind = "Err"
                      /\ UNCHANGED <<deque, maxlen>>
                 ELSE s.valid
                        => /\ ret'.kind = "Ok"
                           /\ IF c.kind = "int"
                              THEN /\ maxlen' = Some(c.v)
                                   /\ deque' = LastN(s.elems, Min(Len(s.elems), c.v))
                              ELSE /\ maxlen' = None
                                   /\ deque' = s.elems]_vars

\* the construction from [1, 2] with capacity 1 has stored [2]
C26_Witness ==
    /\ ret.op = "init"
    /\ ret.kind = "Ok"
    /\ ret.arg.iterable.elems = <<1, 2>>
    /\ ret.arg.maxlen = [kind |-> "int", v |-> 1]
    /\ deque = <<2>>
    /\ maxlen = Some(1)

\* ----------------------------------------------------------------- C27
\* C27: on a container of length n that is not mutated during the
\* traversal, a forward cursor started at position 0 yields the elements
\* at indices 0, 1, ..., n - 1 in that order and then becomes Exhausted; a
\* reverse cursor yields the elements at n - 1, ..., 0 and then becomes
\* Exhausted; before each advance the remaining-length estimate equals
\* max(n - position, 0), the number of elements still to be yielded.
\*
\* The other thread has not begun its call, and the cursor is between two
\* advances.
C27_Unmutated == loc[2].calls = 0 /\ pc[1] = "idle" /\ it.status # "None"

\* the index of the element the advance that moved the cursor to `pos`
\* has read
C27_IndexRead(kind, pos, n) == IF kind = "fwd" THEN pos - 1 ELSE n - pos

C27_TraversalInOrder ==
    (C27_Unmutated /\ obs.seed = None)
        => LET n == Len(deque)
           IN  /\ it.position <= n
               /\ it.res.kind # "Err"
               /\ it.res.kind = "Return"
                     => /\ it.position >= 1
                        /\ it.res.val
                             = <<deque[C27_IndexRead(it.kind, it.position, n) + 1]>>
               /\ it.res.kind = "Stop" => it.position = n
               /\ it.status = "Exhausted" <=> it.res.kind = "Stop"
               /\ length_hint(it, n) = Max(n - it.position, 0)

\* a reverse cursor over [1, 2] has yielded 2, then 1, and has then
\* answered end-of-sequence
C27_Witness ==
    /\ C27_Unmutated
    /\ obs.seed = None
    /\ it.kind = "rev"
    /\ deque = <<1, 2>>
    /\ it.position = 2
    /\ it.status = "Exhausted"

\* ----------------------------------------------------------------- C28
\* C28: serializing an Active cursor gives its container and its current
\* position; constructing a cursor of the same direction from that pair
\* (a negative seed clamped to 0) yields, on an unmutated container,
\* exactly the elements the original had not yet yielded, in the same
\* order; a seed at or past the length gives a cursor whose first advance
\* reports end-of-sequence.
C28_Start == IF obs.seed = None THEN 0 ELSE Max(obs.seed[1], 0)

C28_SeededCursor ==
    C27_Unmutated
        => LET n == Len(deque)
           IN  \* the serialized form, and the cursor built from it
               /\ (it.status = "Active" /\ loc[1].op = "reduce")
                     => /\ loc[1].res.val = <<"deque", it.position>>
                        /\ iter_py_new(it.kind, Some(loc[1].res.val[2]), state)
                             = [it EXCEPT !.res = NoRes]
               \* a cursor built from a seed starts at the clamped seed
               /\ it.res.kind = "None" => it.position = C28_Start
               /\ it.position >= C28_Start
               \* and yields what a cursor that has come to this position
               \* yields: the element at its position, up to the last one
               /\ it.res.kind # "Err"
               /\ it.res.kind = "Return"
                     => /\ it.position > C28_Start
                        /\ it.position <= n
                        /\ it.res.val
                             = <<deque[C27_IndexRead(it.kind, it.position, n) + 1]>>
               /\ it.res.kind = "Stop" => it.position = Max(n, C28_Start)
               /\ (it.status = "Active" /\ it.res.kind = "None")
                     => Consume(deque, it.position)
                          = Consume(deque, Min(C28_Start, n))
               \* a seed at or past the end: no element is ever yielded
               /\ C28_Start >= n => it.res.kind \in {"None", "Stop"}

\* a reverse cursor built from the seed 1 over [1, 2] has yielded 1, has
\* been serialized at position 2 and is still Active
C28_Witness ==
    /\ C27_Unmutated
    /\ obs.seed = Some(1)
    /\ it.kind = "rev"
    /\ deque = <<1, 2>>
    /\ it.res.kind = "Return"
    /\ it.res.val = <<1>>
    /\ loc[1].op = "reduce"
    /\ loc[1].res.val = <<"deque", 2>>

\* ----------------------------------------------------------------- C29
\* C29: a cursor's status never goes from Exhausted back to Active; its
\* position never decreases: it increases by exactly 1 on an advance that
\* returns an element and is unchanged by every other event.
C29_Returns == pc[1] = "next_read" /\ pc'[1] = "idle" /\ it'.res.kind = "Return"

C29_OneWay ==
    [][it.status # "None"
          => /\ it.status = "Exhausted" => it'.status = "Exhausted"
             /\ it'.status # "None"
             /\ it'.kind = it.kind
             /\ it'.position = IF C29_Returns THEN it.position + 1
                               ELSE it.position]_vars

\* a cursor has yielded two elements and was Exhausted by an advance that
\* met a mutation of the other thread
C29_Witness ==
    /\ obs.seed = None
    /\ it.status = "Exhausted"
    /\ it.position = 2
    /\ it.res.kind = "Err"
    /\ loc[2].calls = 1

\* ----------------------------------------------------------------- C30
\* C30: a cursor holds an owning reference to its container exactly while
\* it is Active, so that the container stays referenced while an Active
\* cursor over it exists; from the step at which it becomes Exhausted it
\* holds no reference, and its serialized form then refers to a fresh
\* empty container, not to the original.
C30_ReferenceWhileActive ==
    /\ it.status = "Active" <=> it.obj = Some("deque")
    /\ it.status # "Active" => it.obj = None
    /\ it.status = "Active" => iter_reduce(it)[1] = "deque"
    /\ it.status = "Exhausted" => iter_reduce(it)[1] = "default"
    /\ (loc[1].op = "reduce" /\ it.status # "None")
          => loc[1].res.val = iter_reduce(it)

\* a cursor over a container of two elements, Exhausted after one element,
\* has been serialized
C30_Witness ==
    /\ obs.seed = None
    /\ it.res.kind = "Err"
    /\ it.status = "Exhausted"
    /\ it.position = 1
    /\ Len(deque) = 2
    /\ loc[1].op = "reduce"
    /\ loc[1].res.val = <<"default", 1>>

\* ----------------------------------------------------------------- C31
\* C31: once a container has been constructed its capacity never changes:
\* every operation applied to an existing container leaves its capacity,
\* bounded with the same value or unbounded, as it was.
C31_CapacityFixed == [][maxlen' = maxlen]_vars

\* ----------------------------------------------------------------- C32
\* C32: comparing a container with itself for equality yields true and for
\* inequality false, without comparing any element; for every other pair
\* or operator the result is the lexicographic comparison of the two
\* element sequences (equal iff same length and pairwise equal elements, a
\* proper prefix being smaller); capacity and generation never influence
\* the result.
C32_LexLt(a, b) ==
    \E k \in 0..Min(Len(a), Len(b)) :
        /\ \A j \in 1..k : a[j] = b[j]
        /\ \/ k = Len(a) /\ k < Len(b)
           \/ k < Len(a) /\ k < Len(b) /\ a[k + 1] < b[k + 1]

C32_Lex(a, b, op) ==
    CASE op = "Eq" -> a = b
      [] op = "Ne" -> a # b
      [] op = "Lt" -> C32_LexLt(a, b)
      [] op = "Le" -> C32_LexLt(a, b) \/ a = b
      [] op = "Gt" -> C32_LexLt(b, a)
      [] op = "Ge" -> C32_LexLt(b, a) \/ a = b

C32_Comparison ==
    [][(ret'.op = "cmp" /\ ret'.arg[1].kind # "other")
          => LET other == ret'.arg[1]
                 op == ret'.arg[2]
             IN  IF other.kind = "self" /\ op \in {"Eq", "Ne"}
                 THEN ret'.val = [res |-> op = "Eq", compared |-> 0]
                 ELSE ret'.val.res
                        = C32_Lex(deque,
                                  IF other.kind = "self" THEN deque ELSE other.deque,
                                  op)]_vars

\* a bounded container [1] of generation 1 has been found smaller than an
\* unbounded [1, 1] of generation 0 after one element comparison
C32_Witness ==
    /\ ret.op = "cmp"
    /\ ret.arg[2] = "Lt"
    /\ ret.arg[1] = [kind |-> "deque", deque |-> <<1, 1>>, maxlen |-> None, state |-> 0]
    /\ deque = <<1>>
    /\ maxlen = Some(2)
    /\ state = 1
    /\ ret.val = [res |-> TRUE, compared |-> 1]

\* ----------------------------------------------------------------- C33
\* C33: the capacity is written only by the initialiser under the
\* exclusive lock, and every operation that reads it to enforce the bound
\* reads it while holding that lock, so that in no interleaving with a
\* concurrent re-initialisation does an operation trim or extend the
\* contents using a capacity that is no longer the container's.
C33_BulkSections ==
    {"extend_trim", "extend_push", "extendleft_trim", "extendleft_push"}

C33_CapacityReadUnderLock ==
    [][\A t \in Threads :
          (pc[t] \in C33_BulkSections /\ pc'[t] # pc[t])
              => loc[t].max_len = maxlen]_vars

\* ----------------------------------------------------------------- C34
\* C34: for every capacity c >= 0 or unbounded, every starting contents
\* within capacity and every input sequence s, bulk-append of s leaves the
\* same elements as push-back of each element of s in order, and
\* bulk-append-at-front of s leaves the same elements as push-front of
\* each element of s in order.
C34_WithinCapacity == maxlen = None \/ Len(deque) <= maxlen[1]

C34_BulkEqualsPushes ==
    [][(ret'.op \in {"extend", "extendleft"} /\ ret'.kind = "Ok"
            /\ C34_WithinCapacity)
          => deque' = IF ret'.op = "extend"
                      THEN AppendAll(deque, maxlen, ret'.arg)
                      ELSE AppendleftAll(deque, maxlen, ret'.arg)]_vars

\* ----------------------------------------------------------------- C35
\* C35: when a cursor advance fails with ConcurrentMutation the cursor
\* becomes Exhausted: it releases its container, every later advance
\* reports end-of-sequence instead of failing again, and its
\* remaining-length estimate is 0.
C35_Failed == it.res = ErrRes("ConcurrentMutation")

C36_Comparing == pc[1] \in {"cmp_lhs", "cmp_rhs", "cmp_walk"}

C36_ComparisonReturns == C36_Comparing ~> (pc[1] = "idle")

\* ------------------------------------------------------------------ copy
MaxCopyGen == 2   \* largest generation of the source and of its copy
MaxCopyAdv == 1   \* advances of each of the two cursors

\* a copy that starts at generation 0, as a constructed container does
copy_value_fresh(dq, ml, st) == [deque |-> dq, maxlen |-> ml, state |-> 0]

\* copy / __copy__: a new PyDeque with its own lock around a clone of the
\* elements, the same maxlen, and its own AtomicCell holding state.load()
copy_value(dq, ml, st) == [deque |-> dq, maxlen |-> ml, state |-> st]

\* the copy is kept in obs.copy, a second object beside the container of
\* the variables; obs.cit is a cursor over it
copy ==
    /\ obs.copy = None
    /\ obs' = [obs EXCEPT !.copy = Some(copy_value(deque, maxlen, state))]
    /\ ret' = Ok("copy", 0, copy_value(deque, maxlen, state))
    /\ UNCHANGED <<deque, maxlen, state, pmode, pushed, pc, loc, wlock, rlock, it>>

\* append called on the copy
copy_append(obj) ==
    /\ obs.copy # None
    /\ LET c == obs.copy[1]
       IN  /\ c.state < MaxCopyGen
           /\ Len(append_locked(c.deque, c.maxlen, obj)) <= MaxLen
           /\ obs' = [obs EXCEPT !.copy =
                        Some([c EXCEPT !.deque = append_locked(c.deque, c.maxlen, obj),
                                       !.state = c.state + 1])]
    /\ ret' = Ok("copy.append", obj, <<>>)
    /\ UNCHANGED <<deque, maxlen, state, pmode, pushed, pc, loc, wlock, rlock, it>>

\* popleft called on the copy
copy_popleft ==
    /\ obs.copy # None
    /\ LET c == obs.copy[1]
       IN  /\ c.state < MaxCopyGen
           /\ obs' = [obs EXCEPT !.copy =
                        Some([c EXCEPT !.deque = pop_front(c.deque),
                                       !.state = c.state + 1])]
           /\ ret' = IF c.deque = <<>>
                     THEN Err("copy.popleft", 0, "EmptyContainer")
                     ELSE Ok("copy.popleft", 0, <<c.deque[1]>>)
    /\ UNCHANGED <<deque, maxlen, state, pmode, pushed, pc, loc, wlock, rlock, it>>

\* iter(copy): the cursor holds the copy and captures the copy's state
copy_iter ==
    /\ obs.copy # None
    /\ obs.cit.status = "None"
    /\ obs' = [obs EXCEPT !.cit =
                 [iter_py_new("fwd", None, obs.copy[1].state)
                    EXCEPT !.obj = Some("copy")]]
    /\ UNCHANGED <<deque, maxlen, state, pc, loc, wlock, rlock, it, svars>>

\* one whole advance of a forward cursor i over a container with contents
\* dq and generation st
iter_next(i, dq, st) ==
    IF i.status = "Exhausted"
    THEN [i EXCEPT !.res = [kind |-> "Stop", err |-> "", val |-> <<>>]]
    ELSE IF iter_mutated(i.state, st)
    THEN [i EXCEPT !.res = ErrRes("ConcurrentMutation"),
                   !.status = "Exhausted", !.obj = None]
    ELSE IF iter_get(dq, i.position) # None
    THEN [i EXCEPT !.res = [kind |-> "Return", err |-> "",
                            val |-> iter_get(dq, i.position)],
                   !.position = i.position + 1]
    ELSE [i EXCEPT !.res = [kind |-> "Stop", err |-> "", val |-> <<>>],
                   !.status = "Exhausted", !.obj = None]

\* next on the cursor over the copy, called by thread t
copy_next(t) ==
    /\ CanCall(t)
    /\ obs.copy # None
    /\ obs.cit.status # "None"
    /\ obs' = [obs EXCEPT !.cit = iter_next(obs.cit, obs.copy[1].deque,
                                            obs.copy[1].state)]
    /\ loc' = [loc EXCEPT ![t] = NewCall(t, "next", 0, 0, TRUE, <<>>)]
    /\ UNCHANGED <<deque, maxlen, state, pc, wlock, rlock, it, svars>>

InitCopy == InitWith({None, Some(2)}, [t \in Threads |-> MaxCopyAdv], FALSE)

\* a container, its copy, a cursor over each, and mutations of both
NextCopy ==
    \/ copy
    \/ state < MaxCopyGen /\ append(1)
    \/ state < MaxCopyGen /\ popleft
    \/ copy_append(2)
    \/ copy_popleft
    \/ t_iter(1)
    \/ t_next_begin(1)
    \/ t_next_read(1)
    \/ copy_iter
    \/ copy_next(2)

SpecCopy == InitCopy /\ [][NextCopy]_vars

\* C37: the step that takes the copy
C37_CopyStep == obs.copy = None /\ obs'.copy # None

\* C37: the copy has the elements of the source in the same order, the
\* same capacity and the generation the source has at that moment, and
\* taking it leaves the source as it was
C37_SameAsSource ==
    C37_CopyStep =>
        /\ Len(obs'.copy[1].deque) = Len(deque)
        /\ \A k \in 1..Len(deque) : obs'.copy[1].deque[k] = deque[k]
        /\ obs'.copy[1].maxlen = maxlen
        /\ obs'.copy[1].state = state
        /\ <<deque, maxlen, state>>' = <<deque, maxlen, state>>

\* C37: once the copy exists, a step that changes the elements or the
\* generation of the source changes nothing of the copy, and a step that
\* changes the copy changes nothing of the source
C37_Independent ==
    obs.copy # None =>
        /\ (deque' # deque \/ state' # state) => obs'.copy = obs.copy
        /\ obs'.copy # obs.copy => <<deque, maxlen, state>>' = <<deque, maxlen, state>>

\* C37: a cursor reports ConcurrentMutation only when the generation of
\* the container it was made from has moved, whatever happened to the other
C37_CursorsKept ==
    /\ it.res.err = "ConcurrentMutation" => it.state # state
    /\ obs.cit.res.err = "ConcurrentMutation" =>
            obs.copy # None /\ obs.cit.state # obs.copy[1].state

\* C37: copy returns a new container with the same elements in the same
\* order, the same capacity and the source's generation at the time of the
\* copy; afterwards an operation on either changes neither the elements nor
\* the generation of the other, and mutating one never invalidates a
\* cursor over the other
C37_CopyIsIndependent ==
    /\ [][C37_SameAsSource]_vars
    /\ [][C37_Independent]_vars
    /\ []C37_CursorsKept

\* C37: the source and its copy have both been mutated, the copy more
\* often than the source since it was taken, the two differ in
\* elements and generation, and the cursors over both still return elements
C37_Witness ==
    /\ obs.copy # None
    /\ state >= 1
    /\ obs.copy[1].state > state
    /\ obs.copy[1].deque # deque
    /\ obs.copy[1].maxlen = maxlen
    /\ it.status = "Active" /\ it.res.kind = "Return" /\ it.state = state
    /\ obs.cit.status = "Active" /\ obs.cit.res.kind = "Return"
    /\ obs.cit.state = obs.copy[1].state
    /\ obs.cit.state > it.state
====
